---- MODULE Spec2Model ----
(***************************************************************************)
(* A model of the agent-bridge SFU server (src/server) and of the          *)
(* programmatic client's RTP writers (Client.WriteOpus, the test-audio     *)
(* generator).                                                             *)
(*                                                                         *)
(* Server: every goroutine of the server is a thread with a program        *)
(* counter: one read loop per signaling connection (handleWebSocket), and  *)
(* per Peer object the media stack's callbacks: OnTrack and the            *)
(* OnConnectionStateChange runs that reach handlePeerDisconnect.  A step   *)
(* is one critical section of the code (a Room method under its lock, a    *)
(* Peer.SendMessage under the peer mutex, a PeerConnection call).          *)
(***************************************************************************)
EXTENDS Integers, Sequences, FiniteSets, Bags, TLC

\* ------------------------------------------------------------- bounds
\* signaling connections whose goroutines Spec interleaves
MaxConns == 2
\* Peer objects handleJoin constructs in Spec
MaxPeers == 2
\* failed/disconnected connection-state events delivered by the media stack
MaxLost == 1
\* remote tracks delivered by the media stack (OnTrack callbacks)
MaxTracks == 1
\* read errors on connections that have an established peer
MaxErrs == 1
\* screenshot messages received by the server
MaxShots == 1
\* peers already established when SpecShot starts
ShotPeers == 3
\* goroutines calling Client.WriteOpus in SpecRtp
MaxWriters == 2
\* packets written to the client's audio track in SpecRtp
MaxPackets == 4

\* calls of the audio pipeline in SpecPipe
MaxCalls == 3

\* the length of a client id in SpecTrack
MaxIdLen == 3

\* calls of Connect and Disconnect in SpecClient
MaxClientCalls == 4

\* utterances, transcripts and 20 ms periods in SpecAgent
MaxSpeaks == 2
MaxTranscripts == 2
MaxTicks == 3

\* samples per 20 ms Opus frame at 48 kHz: the timestamp step
FrameSamples == 960
\* the pipeline's input and output sample rates
InputRate == 22050
OutputRate == 48000

VARIABLES
    Rooms,      \* roomManager.Rooms: room id -> Room.Peers (client id -> Peer)
    peers,      \* the Peer objects, in the order handleJoin constructed them
    th,         \* the goroutines: their position and locals
    connPeer,   \* handleWebSocket's local `peer` of each connection (0 = nil)
    sent,       \* per connection, the bag of messages written with Conn.WriteJSON
    lost,       \* failed/disconnected events delivered so far
    tracks,     \* remote tracks delivered so far
    errs,       \* read errors of established connections so far
    shots,      \* screenshot messages received so far
    lastShot,   \* the last screenshot message received, and from which peer
    rtp,        \* the programmatic client's RTP send state and audio track
    agent,      \* the AI agent's speaking state, its frame pacer and the tickers
    cl,         \* the programmatic client's connection state (Connect, Disconnect)
    trk,        \* a forwarded track: its publisher, its stream id, the id delivered
    pipe,       \* the audio pipeline: its buffer and the frames it has emitted
    reg,        \* the room registry with its mutex and the callers of GetOrCreateRoom
    snd,        \* signaling sockets, Peer mutexes and the goroutines that send
    lk          \* the server's locks and the goroutines that take them

\* the variables of the server's goroutines, and those of the components
\* modelled on their own (the programmatic client, the agent, the registry
\* and the senders), which the server's steps leave alone
clientVars == <<rtp, agent, cl, trk, pipe, reg, snd, lk>>
serverVars == <<Rooms, peers, th, connPeer, sent, lost, tracks, errs, shots, lastShot>>
vars == <<Rooms, peers, th, connPeer, sent, lost, tracks, errs, shots, lastShot,
          rtp, agent, cl, trk, pipe, reg, snd, lk>>

\* what the steps of one component leave unchanged
exceptRtp == <<Rooms, peers, th, connPeer, sent, lost, tracks, errs, shots, lastShot,
               agent, cl, trk, pipe, reg, snd, lk>>
exceptAgent == <<Rooms, peers, th, connPeer, sent, lost, tracks, errs, shots, lastShot,
                 cl, trk, pipe, reg, snd, lk>>
exceptCl == <<Rooms, peers, th, connPeer, sent, lost, tracks, errs, shots, lastShot,
              rtp, agent, trk, pipe, reg, snd, lk>>
exceptTrk == <<Rooms, peers, th, connPeer, sent, lost, tracks, errs, shots, lastShot,
               rtp, agent, cl, pipe, reg, snd, lk>>
exceptPipe == <<Rooms, peers, th, connPeer, sent, lost, tracks, errs, shots, lastShot,
                rtp, agent, cl, trk, reg, snd, lk>>

exceptReg == <<Rooms, peers, th, connPeer, sent, lost, tracks, errs, shots, lastShot,
               rtp, agent, cl, trk, pipe, snd, lk>>
exceptSnd == <<Rooms, peers, th, connPeer, sent, lost, tracks, errs, shots, lastShot,
               rtp, agent, cl, trk, pipe, reg, lk>>
exceptLk == <<Rooms, peers, th, connPeer, sent, lost, tracks, errs, shots, lastShot,
              rtp, agent, cl, trk, pipe, reg, snd>>

\* ------------------------------------------------------------- values
NoPeer == 0
NoRoom == "nil"
EmptyMap == [x \in {} |-> 0]

\* Ids are opaque to the server (compared for equality only), so the k-th
\* Peer constructed draws its id from the first k names, and a join names a
\* room already registered or the first unused name.
IdNames == <<"a", "b", "c", "d", "e">>
RoomNames == <<"r", "q", "s", "t", "u">>
Data == {"QUJD", "x"}

Min(a, b) == IF a < b THEN a ELSE b
JoinIds == {IdNames[i] : i \in 1..Min(Len(peers) + 1, Len(IdNames))}
JoinRooms == {RoomNames[i] : i \in 1..Min(Cardinality(DOMAIN Rooms) + 1, Len(RoomNames))}
TargetIds == {IdNames[i] : i \in 1..Min(Len(peers), Len(IdNames))} \cup {"zz", ""}

Max(a, b) == IF a > b THEN a ELSE b
ConnIds == 1..Max(MaxConns, ShotPeers)
PeerIds == 1..Max(MaxPeers, ShotPeers)
Threads == ({"conn"} \X ConnIds) \cup ({"track", "lost", "closed"} \X PeerIds)
ConnT(c) == <<"conn", c>>

\* ------------------------------------------------------------- Room
MapPut(m, k, v) == [x \in DOMAIN m \cup {k} |-> IF x = k THEN v ELSE m[x]]
MapDel(m, k) == [x \in DOMAIN m \ {k} |-> m[x]]

\* RoomManager.GetOrCreateRoom: the registry after the call
GetOrCreateRoom(room) ==
    IF room \in DOMAIN Rooms THEN Rooms ELSE MapPut(Rooms, room, EmptyMap)

\* the peers of a broadcast that does not leave out excludeID
GetPeersAll(m, excludeID) == {m[id] : id \in DOMAIN m}

\* Room.GetOtherPeers, and the peers Room.BroadcastExcept ranges over
GetOtherPeers(m, excludeID) == {m[id] : id \in DOMAIN m \ {excludeID}}

\* Room.GetPeer
GetPeer(m, peerID) == IF peerID \in DOMAIN m THEN m[peerID] ELSE NoPeer

\* Room.AddPeer: r.Peers[peer.ID] = peer; peer.Room = r
AddPeerRooms(room, p) == [Rooms EXCEPT ![room] = MapPut(@, peers[p].ID, p)]
AddPeerPeers(room, p) == [peers EXCEPT ![p].Room = room]

\* a removal that leaves the map as it is
RemovePeerNone(room, peerID) == Rooms

\* Room.RemovePeer: delete(r.Peers, peerID)
RemovePeer(room, peerID) == [Rooms EXCEPT ![room] = MapDel(@, peerID)]

\* ------------------------------------------------------------- locks
\* Peer.mu is held across steps only by handleJoin's existing-track loop,
\* between AddTrack and the offer's SendMessage (handlers.go:159-163).
MuHeld(p) == \E t \in Threads : th[t].pc = "j_tracks_send" /\ th[t].cur = p

\* Peer.SendMessage: p.Conn.WriteJSON(msg) under p.mu
SendMessage(s, p, msg) == [s EXCEPT ![peers[p].Conn] = @ (+) SetToBag({msg})]

Msg(type, clientID, data, via) ==
    [type |-> type, client_id |-> clientID, data |-> data, via |-> via]

\* ------------------------------------------------------------- threads
\* Room.BroadcastExcept(excludeID, msg): under the room's read lock, a
\* SendMessage to every peer of the map but excludeID.  The sends to the
\* peers in Q are made in map order; the bags they extend do not record it.
RECURSIVE SendAll(_, _, _, _)
SendAll(s, Q, type, clientID) ==
    IF Q = {} THEN s
    ELSE LET q == CHOOSE x \in Q : TRUE IN
         SendAll(SendMessage(s, q, Msg(type, clientID, "", q)), Q \ {q}, type, clientID)

BroadcastExcept(s, room, excludeID, type, clientID) ==
    SendAll(s, GetOtherPeers(Rooms[room], excludeID), type, clientID)

\* the broadcast can take the mutex of each peer it writes to
CanBroadcast(room, excludeID) ==
    \A q \in GetOtherPeers(Rooms[room], excludeID) : ~MuHeld(q)

NoShot == [from |-> NoPeer, target_id |-> "", data |-> ""]
NoRtp == <<>>

\* the components a specification leaves out
Absent == <<>>

\* msg is history: the type of the last message the read loop dropped
Idle == [pc |-> "idle", peer |-> NoPeer, room |-> NoRoom, todo |-> {}, cur |-> NoPeer,
         msg |-> ""]
At(t, pc) == th[t].pc = pc

\* the counters of the events delivered so far
NoEvents ==
    /\ lost = 0
    /\ tracks = 0
    /\ errs = 0
    /\ shots = 0
    /\ lastShot = NoShot

\* the server after main has set up roomManager and before any connection
ServerInit ==
    /\ Rooms = EmptyMap
    /\ peers = <<>>
    /\ th = [t \in Threads |-> IF t[1] = "conn" THEN [Idle EXCEPT !.pc = "new"] ELSE Idle]
    /\ connPeer = [c \in ConnIds |-> NoPeer]
    /\ sent = [c \in ConnIds |-> EmptyBag]
    /\ NoEvents

Init ==
    /\ ServerInit
    /\ rtp = NoRtp
    /\ agent = Absent /\ cl = Absent /\ trk = Absent /\ pipe = Absent
    /\ reg = Absent /\ snd = Absent /\ lk = Absent

\* handleWebSocket: the upgrade and the first ReadJSON.  Connections are
\* numbered in the order of their first message: connection c reads its
\* first message when connection c-1 has read one.
Reads(c) ==
    \/ At(ConnT(c), "read")
    \/ /\ At(ConnT(c), "new")
       /\ c > 1 => ~At(ConnT(c - 1), "new")

\* handleWebSocket case "join" -> handleJoin up to the peer_joined
\* broadcast: createPeerConnection, &Peer{...}, GetOrCreateRoom and
\* room.BroadcastExcept(peer.ID, peer_joined) (handlers.go:70-92)
NewPeer(c, id) ==
    [ID |-> id, Conn |-> c, Room |-> NoRoom, LocalTracks |-> FALSE,
     closed |-> FALSE, remoteSet |-> FALSE, senders |-> [q \in PeerIds |-> 0],
     before |-> {}]

\* history: the peers registered in the room under another id whose own
\* handleJoin had returned when this handleJoin began
Before(room, id) ==
    {q \in GetOtherPeers(GetOrCreateRoom(room)[room], id) : connPeer[peers[q].Conn] = q}

\* a join that broadcasts nothing
JoinBroadcastNone(s, room, id) == s

\* room.BroadcastExcept(peer.ID, peer_joined) (handlers.go:88-92)
JoinBroadcast(s, room, id) ==
    SendAll(s, GetOtherPeers(GetOrCreateRoom(room)[room], id), "peer_joined", id)

ReadJoin(c, room, id) ==
    /\ Reads(c)
    /\ Len(peers) < MaxPeers
    /\ \A q \in GetOtherPeers(GetOrCreateRoom(room)[room], id) : ~MuHeld(q)
    /\ peers' = Append(peers, [NewPeer(c, id) EXCEPT !.before = Before(room, id)])
    /\ Rooms' = GetOrCreateRoom(room)
    /\ sent' = JoinBroadcast(sent, room, id)
    /\ th' = [th EXCEPT ![ConnT(c)] =
                [Idle EXCEPT !.pc = "j_add", !.peer = Len(peers) + 1, !.room = room]]
    /\ UNCHANGED <<connPeer, lost, tracks, errs, shots, lastShot, clientVars>>

\* handleJoin: createPeerConnection fails, handleJoin returns nil and the
\* read loop returns (handlers.go:73-77, 42-44)
JoinFail(c) ==
    /\ Reads(c)
    /\ th' = [th EXCEPT ![ConnT(c)].pc = "done"]
    /\ UNCHANGED <<Rooms, peers, connPeer, sent, lost, tracks, errs, shots, lastShot, clientVars>>

\* handleJoin: room.AddPeer(peer), handlers.go:94; the callbacks of
\* handlers.go:97-155 are installed on the new peer's PeerConnection
JoinAddPeer(c) ==
    LET t == ConnT(c) IN
    /\ At(t, "j_add")
    /\ Rooms' = AddPeerRooms(th[t].room, th[t].peer)
    /\ peers' = AddPeerPeers(th[t].room, th[t].peer)
    /\ th' = [th EXCEPT ![t].pc = "j_snap"]
    /\ UNCHANGED <<connPeer, sent, lost, tracks, errs, shots, lastShot, clientVars>>

\* handleJoin: room.GetOtherPeers(peer.ID), handlers.go:158
JoinSnap(c) ==
    LET t == ConnT(c) IN
    /\ At(t, "j_snap")
    /\ th' = [th EXCEPT ![t].pc = "j_tracks",
                        ![t].todo = GetOtherPeers(Rooms[th[t].room], peers[th[t].peer].ID)]
    /\ UNCHANGED <<Rooms, peers, connPeer, sent, lost, tracks, errs, shots, lastShot, clientVars>>

\* an AddTrack that attaches nothing
AddTrackNone(ps, p, owner) == ps

\* PeerConnection.AddTrack: a sender for owner's forwarding track on p
AddTrack(ps, p, owner) == [ps EXCEPT ![p].senders[owner] = @ + 1]

\* handleJoin's existing-track loop, one existing peer: existingPeer.mu.Lock,
\* then for its forwarding track addTrackToPeer(peer, track): AddTrack and
\* triggerNegotiation's CreateOffer and SetLocalDescription
\* (handlers.go:158-164, peer.go:29-48, webrtc.go triggerNegotiation).
\* A closed PeerConnection refuses AddTrack and addTrackToPeer returns.
JoinTrack(c, e) ==
    LET t == ConnT(c)
        p == th[t].peer IN
    /\ At(t, "j_tracks")
    /\ e \in th[t].todo
    /\ ~MuHeld(e)
    /\ IF peers[e].LocalTracks /\ ~peers[p].closed
       THEN /\ peers' = AddTrack(peers, p, e)
            /\ th' = [th EXCEPT ![t].pc = "j_tracks_send", ![t].cur = e]
       ELSE /\ peers' = peers
            /\ th' = [th EXCEPT ![t].todo = @ \ {e}]
    /\ UNCHANGED <<Rooms, connPeer, sent, lost, tracks, errs, shots, lastShot, clientVars>>

\* triggerNegotiation's peer.SendMessage(offer) inside the loop, then
\* existingPeer.mu.Unlock
JoinTrackSend(c) ==
    LET t == ConnT(c)
        p == th[t].peer IN
    /\ At(t, "j_tracks_send")
    /\ ~MuHeld(p)
    /\ sent' = SendMessage(sent, p, Msg("offer", "", "", p))
    /\ th' = [th EXCEPT ![t].pc = "j_tracks", ![t].todo = @ \ {th[t].cur},
                        ![t].cur = NoPeer]
    /\ UNCHANGED <<Rooms, peers, connPeer, lost, tracks, errs, shots, lastShot, clientVars>>

\* handleJoin: AddTransceiverFromKind and the initial triggerNegotiation's
\* CreateOffer and SetLocalDescription, handlers.go:167-175
JoinOffer(c) ==
    LET t == ConnT(c) IN
    /\ At(t, "j_tracks")
    /\ th[t].todo = {}
    /\ th' = [th EXCEPT ![t].pc = "j_offer"]
    /\ UNCHANGED <<Rooms, peers, connPeer, sent, lost, tracks, errs, shots, lastShot, clientVars>>

\* the initial offer's peer.SendMessage; handleJoin returns the peer and
\* handleWebSocket assigns it (handlers.go:41, 175-177)
JoinReturn(c) ==
    LET t == ConnT(c)
        p == th[t].peer IN
    /\ At(t, "j_offer")
    /\ ~MuHeld(p)
    /\ sent' = SendMessage(sent, p, Msg("offer", "", "", p))
    /\ connPeer' = [connPeer EXCEPT ![c] = p]
    /\ th' = [th EXCEPT ![t] = [Idle EXCEPT !.pc = "read"]]
    /\ UNCHANGED <<Rooms, peers, lost, tracks, errs, shots, lastShot, clientVars>>

\* handleWebSocket case "answer" -> handleAnswer: SetRemoteDescription.
\* From here on the peer's media can flow: its remote track can arrive and
\* its connection state can change.
ReadAnswer(c) ==
    /\ At(ConnT(c), "read")
    /\ connPeer[c] # NoPeer
    /\ ~peers[connPeer[c]].closed
    /\ ~peers[connPeer[c]].remoteSet
    /\ peers' = [peers EXCEPT ![connPeer[c]].remoteSet = TRUE]
    /\ UNCHANGED <<Rooms, th, connPeer, sent, lost, tracks, errs, shots, lastShot, clientVars>>

\* a lookup that finds no target, and one that looks in every room
ScreenshotTargetNone(p, targetID) == NoPeer
ScreenshotTargetAnyRoom(p, targetID) ==
    IF \E r \in DOMAIN Rooms : targetID \in DOMAIN Rooms[r]
    THEN LET r == CHOOSE r \in DOMAIN Rooms : targetID \in DOMAIN Rooms[r]
         IN Rooms[r][targetID]
    ELSE NoPeer

\* handleWebSocket case "screenshot" -> handleScreenshot
ScreenshotTarget(p, targetID) ==
    IF peers[p].Room = NoRoom \/ targetID = ""
    THEN NoPeer
    ELSE GetPeer(Rooms[peers[p].Room], targetID)

ReadScreenshot(c, targetID, data) ==
    LET p == connPeer[c]
        targetPeer == ScreenshotTarget(p, targetID) IN
    /\ At(ConnT(c), "read")
    /\ p # NoPeer
    /\ shots < MaxShots
    /\ shots' = shots + 1
    /\ IF targetPeer = NoPeer
       THEN sent' = sent
       ELSE /\ ~MuHeld(targetPeer)
            /\ sent' = SendMessage(sent, targetPeer,
                                    Msg("screenshot", peers[p].ID, data, targetPeer))
    /\ lastShot' = [from |-> p, target_id |-> targetID, data |-> data]
    /\ UNCHANGED <<Rooms, peers, th, connPeer, lost, tracks, errs, clientVars>>

\* handlePeerDisconnect, first step: peer.Room.RemovePeer(peer.ID)
Disconnect(t, p) ==
    /\ Rooms' = IF peers[p].Room # NoRoom
                THEN RemovePeer(peers[p].Room, peers[p].ID) ELSE Rooms
    /\ th' = [th EXCEPT ![t] = [Idle EXCEPT !.pc = "d_notify", !.peer = p,
                                              !.room = peers[p].Room]]

\* handleWebSocket: conn.ReadJSON fails (handlers.go:29-35)
ReadError(c) ==
    /\ Reads(c)
    /\ IF connPeer[c] = NoPeer
       THEN /\ th' = [th EXCEPT ![ConnT(c)].pc = "done"]
            /\ UNCHANGED <<Rooms, errs>>
       ELSE /\ errs < MaxErrs
            /\ errs' = errs + 1
            /\ Disconnect(ConnT(c), connPeer[c])
    /\ UNCHANGED <<peers, connPeer, sent, lost, tracks, shots, lastShot, clientVars>>

\* OnConnectionStateChange with state failed or disconnected
\* (handlers.go:148-155); the media stack runs each callback on its own goroutine
StateLost(p) ==
    /\ p \in 1..Len(peers)
    /\ At(<<"lost", p>>, "idle")
    /\ peers[p].remoteSet
    /\ ~peers[p].closed
    /\ lost < MaxLost
    /\ lost' = lost + 1
    /\ Disconnect(<<"lost", p>>, p)
    /\ UNCHANGED <<peers, connPeer, sent, tracks, errs, shots, lastShot, clientVars>>

\* OnConnectionStateChange with state closed, which PeerConnection.Close raises
StateClosed(p) ==
    /\ p \in 1..Len(peers)
    /\ At(<<"closed", p>>, "idle")
    /\ peers[p].closed
    /\ Disconnect(<<"closed", p>>, p)
    /\ UNCHANGED <<peers, connPeer, sent, lost, tracks, errs, shots, lastShot, clientVars>>

\* handlePeerDisconnect: peer.Room.BroadcastExcept(peer.ID, peer_left)
DiscNotify(t) ==
    LET p == th[t].peer IN
    /\ At(t, "d_notify")
    /\ IF th[t].room # NoRoom
       THEN /\ CanBroadcast(th[t].room, peers[p].ID)
            /\ sent' = BroadcastExcept(sent, th[t].room, peers[p].ID, "peer_left", peers[p].ID)
       ELSE sent' = sent
    /\ th' = [th EXCEPT ![t].pc = "d_close"]
    /\ UNCHANGED <<Rooms, peers, connPeer, lost, tracks, errs, shots, lastShot, clientVars>>

\* handlePeerDisconnect: peer.PeerConnection.Close(), handlers.go:265-267
DiscClose(t) ==
    /\ At(t, "d_close")
    /\ peers' = [peers EXCEPT ![th[t].peer].closed = TRUE]
    /\ th' = [th EXCEPT ![t] = [Idle EXCEPT !.pc = "done"]]
    /\ UNCHANGED <<Rooms, connPeer, sent, lost, tracks, errs, shots, lastShot, clientVars>>

\* OnTrack (handlers.go:108-124): the remote track of peer p arrives; its
\* forwarding track is recorded in peer.LocalTracks under peer.mu
OnTrack(p) ==
    /\ p \in 1..Len(peers)
    /\ At(<<"track", p>>, "idle")
    /\ peers[p].remoteSet
    /\ ~peers[p].closed
    /\ ~MuHeld(p)
    /\ tracks < MaxTracks
    /\ tracks' = tracks + 1
    /\ peers' = [peers EXCEPT ![p].LocalTracks = TRUE]
    /\ th' = [th EXCEPT ![<<"track", p>>] =
                [Idle EXCEPT !.pc = "t_snap", !.peer = p, !.room = peers[p].Room]]
    /\ UNCHANGED <<Rooms, connPeer, sent, lost, errs, shots, lastShot, clientVars>>

\* OnTrack: room.GetOtherPeers(peer.ID), handlers.go:127
TrackSnap(p) ==
    LET t == <<"track", p>> IN
    /\ At(t, "t_snap")
    /\ th' = [th EXCEPT ![t].pc = "t_fan",
                        ![t].todo = GetOtherPeers(Rooms[th[t].room], peers[p].ID)]
    /\ UNCHANGED <<Rooms, peers, connPeer, sent, lost, tracks, errs, shots, lastShot, clientVars>>

\* OnTrack fan-out, one other peer: addTrackToPeer(otherPeer, localTrack):
\* AddTrack, then triggerNegotiation's CreateOffer and SetLocalDescription
TrackFan(p, o) ==
    LET t == <<"track", p>> IN
    /\ At(t, "t_fan")
    /\ o \in th[t].todo
    /\ IF peers[o].closed
       THEN /\ peers' = peers
            /\ th' = [th EXCEPT ![t].todo = @ \ {o}]
       ELSE /\ peers' = AddTrack(peers, o, p)
            /\ th' = [th EXCEPT ![t].pc = "t_fan_send", ![t].cur = o]
    /\ UNCHANGED <<Rooms, connPeer, sent, lost, tracks, errs, shots, lastShot, clientVars>>

\* OnTrack fan-out: triggerNegotiation's otherPeer.SendMessage(offer)
TrackFanSend(p) ==
    LET t == <<"track", p>>
        o == th[t].cur IN
    /\ At(t, "t_fan_send")
    /\ ~MuHeld(o)
    /\ sent' = SendMessage(sent, o, Msg("offer", "", "", o))
    /\ th' = [th EXCEPT ![t].pc = "t_fan", ![t].todo = @ \ {o}, ![t].cur = NoPeer]
    /\ UNCHANGED <<Rooms, peers, connPeer, lost, tracks, errs, shots, lastShot, clientVars>>

\* OnTrack: the fan-out loop ends and the RTP forwarder goroutine starts
TrackDone(p) ==
    LET t == <<"track", p>> IN
    /\ At(t, "t_fan")
    /\ th[t].todo = {}
    /\ th' = [th EXCEPT ![t] = [Idle EXCEPT !.pc = "done"]]
    /\ UNCHANGED <<Rooms, peers, connPeer, sent, lost, tracks, errs, shots, lastShot, clientVars>>

\* ------------------------------------------------------------- Spec
\* The server's goroutines in every interleaving: joins, answers, remote
\* tracks, read errors and connection-state changes on MaxConns connections.
ConcConnIds == 1..MaxConns

Next ==
    \/ \E c \in ConcConnIds, room \in JoinRooms, id \in JoinIds : ReadJoin(c, room, id)
    \/ \E c \in ConcConnIds : JoinFail(c)
    \/ \E c \in ConcConnIds : JoinAddPeer(c)
    \/ \E c \in ConcConnIds : JoinSnap(c)
    \/ \E c \in ConcConnIds, e \in PeerIds : JoinTrack(c, e)
    \/ \E c \in ConcConnIds : JoinTrackSend(c)
    \/ \E c \in ConcConnIds : JoinOffer(c)
    \/ \E c \in ConcConnIds : JoinReturn(c)
    \/ \E c \in ConcConnIds : ReadAnswer(c)
    \/ \E c \in ConcConnIds : ReadError(c)
    \/ \E p \in PeerIds : StateLost(p)
    \/ \E p \in PeerIds : StateClosed(p)
    \/ \E t \in Threads : DiscNotify(t)
    \/ \E t \in Threads : DiscClose(t)
    \/ \E p \in PeerIds : OnTrack(p)
    \/ \E p \in PeerIds : TrackSnap(p)
    \/ \E p \in PeerIds, o \in PeerIds : TrackFan(p, o)
    \/ \E p \in PeerIds : TrackFanSend(p)
    \/ \E p \in PeerIds : TrackDone(p)

Spec == Init /\ [][Next]_vars

\* ------------------------------------------------------------- claims: joins
IdSet == {IdNames[i] : i \in 1..Len(IdNames)}

\* the peers registered in a room's map
RoomPeers(m) == {m[id] : id \in DOMAIN m}

\* how many messages of the given type and client_id were written for Peer
\* object q, counted in the connection bags s with the Peer objects ps
Got(s, ps, type, id, q) == CopiesIn(Msg(type, id, "", q), s[ps[q].Conn])

\* a step of handleJoin that constructs a Peer
JoinStep == Len(peers') = Len(peers) + 1

\* the number of peer_joined{id} a step writes for Peer object q
JoinedDelta(id, q) ==
    Got(sent', peers', "peer_joined", id, q)
        - (IF q <= Len(peers) THEN Got(sent, peers, "peer_joined", id, q) ELSE 0)

\* the peers a join of id N to room should notify: those registered in the
\* room before the join, a peer being identified by its id
JoinAudience(room, N) ==
    IF room \in DOMAIN Rooms
    THEN {q \in RoomPeers(Rooms[room]) : peers[q].ID # N}
    ELSE {}

\* C1: when a peer N joins room R, the peer_joined{client_id=N} broadcast
\* happens before N is inserted into R: the step that broadcasts writes exactly
\* one peer_joined{N} to every peer registered in R before the join (a peer
\* being its id), leaves the new Peer out of every room's map, no other step
\* writes a peer_joined, and no Peer is ever sent a peer_joined carrying its
\* own id.
C1_JoinBroadcastBeforeInsert ==
    [][\A q \in 1..Len(peers'), id \in IdSet :
        LET n == Len(peers')
            room == th'[ConnT(peers'[n].Conn)].room
        IN /\ JoinedDelta(id, q) =
                 (IF JoinStep /\ id = peers'[n].ID /\ q \in JoinAudience(room, id)
                  THEN 1 ELSE 0)
           /\ JoinStep => \A r \in DOMAIN Rooms' : n \notin RoomPeers(Rooms'[r])
           /\ Got(sent', peers', "peer_joined", peers'[q].ID, q) = 0]_vars

\* C1 witness: a second peer has joined a room in which an established peer
\* was registered, and that peer holds the one peer_joined for it
C1_Witness ==
    /\ Len(peers) = 2
    /\ 1 \in peers[2].before
    /\ Got(sent, peers, "peer_joined", peers[2].ID, 1) = 1
    /\ Got(sent, peers, "peer_joined", peers[2].ID, 2) = 0

\* C2: for two peers a and b joining the same room one after the other (b's
\* join begins when a's has returned), once b's join has returned a holds
\* exactly one peer_joined{b}, b holds exactly one peer_joined{a}, and neither
\* holds a peer_joined for itself.
C2_SequentialJoinsSeeEachOther ==
    \A b \in 1..Len(peers) : \A a \in peers[b].before :
        connPeer[peers[b].Conn] = b =>
            /\ Got(sent, peers, "peer_joined", peers[b].ID, a) = 1
            /\ Got(sent, peers, "peer_joined", peers[a].ID, b) = 1
            /\ Got(sent, peers, "peer_joined", peers[a].ID, a) = 0
            /\ Got(sent, peers, "peer_joined", peers[b].ID, b) = 0

\* no two Peer objects carry the same client id
DistinctIds ==
    \A p, q \in 1..Len(peers) : p # q => peers[p].ID # peers[q].ID

\* C3: handlePeerDisconnect is idempotent: however many times it runs for the
\* same peer P, no peer is sent more than one peer_left{client_id=P}.
C3_DisconnectIdempotent ==
    DistinctIds =>
        \A p, q \in 1..Len(peers) : Got(sent, peers, "peer_left", peers[p].ID, q) <= 1

\* no run of handlePeerDisconnect for Peer n is in progress, and one has finished
FullyDisconnected(n) ==
    /\ peers[n].closed
    /\ \A t \in Threads : th[t].peer = n => th[t].pc \notin {"d_notify", "d_close"}

\* Peer q is registered in room under its id
Registered(q, room) ==
    /\ room \in DOMAIN Rooms
    /\ peers[q].ID \in DOMAIN Rooms[room]
    /\ Rooms[room][peers[q].ID] = q

\* C4: a join of peer P followed by its disconnect leaves the room's peer set
\* as it was before the join (P is not registered), and every other peer that
\* was in the room before the join and still is holds exactly one peer_joined
\* and exactly one peer_left for P's id.
C4_JoinThenDisconnect ==
    \A n \in 1..Len(peers) : \A q \in peers[n].before :
        (DistinctIds /\ FullyDisconnected(n) /\ Registered(q, peers[n].Room)) =>
            /\ ~Registered(n, peers[n].Room)
            /\ Got(sent, peers, "peer_joined", peers[n].ID, q) = 1
            /\ Got(sent, peers, "peer_left", peers[n].ID, q) = 1

\* C5: only the first join message on a signaling connection establishes a
\* Peer: no connection ever has two Peer objects constructed for it.
C5_LaterJoinsIgnored ==
    \A p, q \in 1..Len(peers) : peers[p].Conn = peers[q].Conn => p = q

\* no join, track arrival or disconnect is in progress
Quiescent == \A t \in Threads : th[t].pc \in {"new", "read", "idle", "done"}

\* the owners of the forwarding tracks attached toward Peer p
Outgoing(p) == {o \in PeerIds : peers[p].senders[o] > 0}

\* C6: at any quiescent moment the outgoing-track set of each peer P
\* registered in a room R equals the forwarding tracks owned by the other
\* peers registered in R.
C6_OutgoingTracksMatchRoom ==
    (DistinctIds /\ Quiescent) =>
        \A r \in DOMAIN Rooms : \A id \in DOMAIN Rooms[r] :
            Outgoing(Rooms[r][id]) =
                {o \in GetOtherPeers(Rooms[r], id) : peers[o].LocalTracks}

\* goroutine t is inside triggerNegotiation(p): the offer is created and set
\* as local description, and not yet sent
Negotiating(t, p) ==
    \/ th[t].pc \in {"j_tracks_send", "j_offer"} /\ th[t].peer = p
    \/ th[t].pc = "t_fan_send" /\ th[t].cur = p

\* C7: renegotiations for the same peer never overlap: for any peer P at most
\* one execution of triggerNegotiation(P) is in progress.
C7_NegotiationsNeverOverlap ==
    \A p \in 1..Len(peers) : Cardinality({t \in Threads : Negotiating(t, p)}) <= 1

\* ------------------------------------------------------------- SpecShot
\* Screenshots in established rooms.  The initial states are those the server
\* is in after n peers "a", "b", ... have joined one after the other, each on
\* its own connection and each to room "r" or "q", and have answered their
\* offers: every handleJoin has returned and no media has arrived.
ShotRooms(n) == {ro \in [1..n -> {RoomNames[1], RoomNames[2]}] : ro[1] = RoomNames[1]}

EstablishedPeer(i, ro) ==
    [NewPeer(i, IdNames[i]) EXCEPT
        !.Room = ro[i], !.remoteSet = TRUE,
        !.before = {j \in 1..(i - 1) : ro[j] = ro[i]}]

EstablishedRooms(n, ro) ==
    [room \in {ro[i] : i \in 1..n} |->
        [id \in {IdNames[i] : i \in {k \in 1..n : ro[k] = room}} |->
            CHOOSE i \in 1..n : IdNames[i] = id]]

\* what the joins wrote: the offer to the joiner and its peer_joined to the
\* peers registered in its room before it
EstablishedSent(n, ro) ==
    [c \in ConnIds |->
        IF c > n THEN EmptyBag
        ELSE SetToBag({Msg("offer", "", "", c)})
             (+) SetToBag({Msg("peer_joined", IdNames[i], "", c) :
                            i \in {k \in (c + 1)..n : ro[k] = ro[c]}})]

InitShot ==
    /\ \E n \in 1..ShotPeers : \E ro \in ShotRooms(n) :
        /\ peers = [i \in 1..n |-> EstablishedPeer(i, ro)]
        /\ Rooms = EstablishedRooms(n, ro)
        /\ th = [t \in Threads |->
                    IF t[1] = "conn"
                    THEN [Idle EXCEPT !.pc = IF t[2] <= n THEN "read" ELSE "new"]
                    ELSE Idle]
        /\ connPeer = [c \in ConnIds |-> IF c <= n THEN c ELSE NoPeer]
        /\ sent = EstablishedSent(n, ro)
    /\ NoEvents
    /\ rtp = NoRtp
    /\ agent = Absent /\ cl = Absent /\ trk = Absent /\ pipe = Absent
    /\ reg = Absent /\ snd = Absent /\ lk = Absent

NextShot ==
    \/ \E c \in ConnIds, targetID \in TargetIds, data \in Data :
            ReadScreenshot(c, targetID, data)
    \/ \E c \in ConnIds : ReadError(c)
    \/ \E p \in PeerIds : StateLost(p)
    \/ \E p \in PeerIds : StateClosed(p)
    \/ \E t \in Threads : DiscNotify(t)
    \/ \E t \in Threads : DiscClose(t)

SpecShot == InitShot /\ [][NextShot]_vars

\* ------------------------------------------------------------- claims: screenshots
\* a step of handleScreenshot
ShotStep == shots' = shots + 1

\* the Peer object registered under targetID in the room of Peer a, if any
InRoomOf(a, targetID) ==
    IF targetID # "" /\ peers[a].Room \in DOMAIN Rooms
          /\ targetID \in DOMAIN Rooms[peers[a].Room]
    THEN {Rooms[peers[a].Room][targetID]}
    ELSE {}

\* the number of messages a step writes to connection c
Written(c) == BagCardinality(sent'[c]) - BagCardinality(sent[c])

\* C8: when joined peer a sends screenshot{target_id=b, data=D} and b is in
\* a's room, exactly one message screenshot{client_id=a, data=D} is written to
\* b, and nothing is written to any other connection.
C8_ScreenshotForwardedToTargetOnly ==
    [][ShotStep =>
        \A b \in InRoomOf(lastShot'.from, lastShot'.target_id) :
            LET m == [type |-> "screenshot", client_id |-> peers[lastShot'.from].ID,
                      data |-> lastShot'.data, via |-> b]
            IN /\ CopiesIn(m, sent'[peers[b].Conn]) = CopiesIn(m, sent[peers[b].Conn]) + 1
               /\ \A c \in ConnIds : Written(c) = (IF c = peers[b].Conn THEN 1 ELSE 0)]_vars

\* C8 witness: in a room of three peers a screenshot of "a" for "b" has been
\* forwarded
C8_Witness ==
    /\ shots > 0
    /\ Len(peers) = 3
    /\ Cardinality(DOMAIN Rooms[peers[1].Room]) = 3
    /\ lastShot.from = 1
    /\ lastShot.target_id = peers[2].ID
    /\ CopiesIn(Msg("screenshot", peers[1].ID, lastShot.data, 2), sent[peers[2].Conn]) = 1

\* C9: when a peer sends a screenshot whose target_id names no peer in the
\* sender's room (or is empty), the message is dropped: nothing is written to
\* any connection, the sender's included, and the rooms and peers are unchanged.
C9_ScreenshotUnknownTargetDropped ==
    [][(ShotStep /\ InRoomOf(lastShot'.from, lastShot'.target_id) = {}) =>
        /\ sent' = sent
        /\ Rooms' = Rooms
        /\ peers' = peers
        /\ th' = th /\ connPeer' = connPeer]_vars

\* C9 witness: a screenshot was received whose target id is empty, unknown
\* or registered only in another room than the sender's, and no connection
\* holds a screenshot message
C9_Witness ==
    /\ shots > 0
    /\ lastShot.from # NoPeer
    /\ InRoomOf(lastShot.from, lastShot.target_id) = {}
    /\ \/ lastShot.target_id \in {"", "zz"}
       \/ \E r \in DOMAIN Rooms : lastShot.target_id \in DOMAIN Rooms[r]
    /\ \A c \in ConnIds : \A m \in BagToSet(sent[c]) : m.type # "screenshot"

\* ------------------------------------------------------------- SpecRtp
\* The programmatic client's audio track and the goroutines that write RTP
\* packets to it: callers of Client.WriteOpus and the test-audio generator
\* (SimpleAudioGenerator.StartGenerating).  The client is connected:
\* audioTrack is set.  rtp is a record:
\*   rtpSeqNum, rtpTimestamp   Client's counters (uint16, uint32), under rtpMu;
\*                              a uint32 is kept as its two 16-bit halves
\*   calls                      history: the WriteOpus calls that have taken rtpMu
\*   gen                        the generator's own seqNum and timestamp
\*   testAudio                  the -test-audio flag: the generator runs
\*   w                          per WriteOpus caller, its position and the
\*                              pair it read under the lock
\*   track                      the packets written to audioTrack, in order
Writers == 1..MaxWriters
SeqMod == 2 ^ 16

\* a timestamp step that loses the carry into the high half
AddU32NoCarry(t, d) == [hi |-> t.hi, lo |-> (t.lo + d) % SeqMod]

\* a uint32 as its two 16-bit halves, and uint32 addition of a small d
U32(v) == [hi |-> (v \div SeqMod) % SeqMod, lo |-> v % SeqMod]
AddU32(t, d) ==
    [hi |-> (t.hi + ((t.lo + d) \div SeqMod)) % SeqMod, lo |-> (t.lo + d) % SeqMod]

\* FrameSamples * k modulo 2^32, for a call count k below 2^31
TimestampOf(k) ==
    LET low == FrameSamples * (k % SeqMod) IN
    [hi |-> ((low \div SeqMod) + FrameSamples * (k \div SeqMod)) % SeqMod,
     lo |-> low % SeqMod]

\* the WriteOpus calls completed before the first state: none, as many as
\* bring the sequence number next to its wrap, or as many as bring the
\* timestamp next to its wrap (960 * (68 * 2^16 + 17476) = 2^32 - 256)
StartCalls == {0, SeqMod - 2, 68 * SeqMod + 17476 - 1}

WIdle == [pc |-> "idle", seqNum |-> 0, timestamp |-> U32(0)]

InitRtp ==
    /\ ServerInit
    /\ \E k \in StartCalls, ta \in BOOLEAN :
        rtp = [rtpSeqNum |-> k % SeqMod,
               rtpTimestamp |-> TimestampOf(k),
               calls |-> k,
               gen |-> [seqNum |-> 0, timestamp |-> U32(0)],
               testAudio |-> ta,
               w |-> [i \in Writers |-> WIdle],
               track |-> <<>>]
    /\ agent = Absent /\ cl = Absent /\ trk = Absent /\ pipe = Absent
    /\ reg = Absent /\ snd = Absent /\ lk = Absent

\* packets written or about to be written
InFlight == Len(rtp.track) + Cardinality({i \in Writers : rtp.w[i].pc = "stamped"})

\* WriteOpus, the section under rtpMu (part_000:321-326): read the pair and
\* advance it
StampPacket(i) ==
    /\ rtp.w[i].pc = "idle"
    /\ InFlight < MaxPackets
    /\ rtp' = [rtp EXCEPT
                !.w[i] = [pc |-> "stamped", seqNum |-> rtp.rtpSeqNum,
                          timestamp |-> rtp.rtpTimestamp],
                !.rtpSeqNum = (@ + 1) % SeqMod,
                !.calls = @ + 1,
                !.rtpTimestamp = AddU32(@, FrameSamples)]

WriteOpusStamp(i) == StampPacket(i) /\ UNCHANGED exceptRtp

\* WriteOpus, after the unlock: audioTrack.WriteRTP(packet) (part_000:328-342)
WritePacket(i) ==
    /\ rtp.w[i].pc = "stamped"
    /\ rtp' = [rtp EXCEPT
                !.track = Append(@, [seqNum |-> rtp.w[i].seqNum,
                                     timestamp |-> rtp.w[i].timestamp,
                                     by |-> "WriteOpus"]),
                !.w[i] = WIdle]

WriteOpusWrite(i) == WritePacket(i) /\ UNCHANGED exceptRtp

\* StartGenerating's tick: GenerateFrame stamps the frame with the
\* generator's own counters and advances them, and Client.WriteRTP writes it
\* to audioTrack (part_000:416-461, 307-313)
WriteFrame ==
    /\ rtp.testAudio
    /\ InFlight < MaxPackets
    /\ rtp' = [rtp EXCEPT
                !.track = Append(@, [seqNum |-> rtp.gen.seqNum,
                                     timestamp |-> rtp.gen.timestamp,
                                     by |-> "generator"]),
                !.gen = [seqNum |-> (@.seqNum + 1) % SeqMod,
                         timestamp |-> AddU32(@.timestamp, FrameSamples)]]

GenerateFrame == WriteFrame /\ UNCHANGED exceptRtp

NextRtp ==
    \/ \E i \in Writers : WriteOpusStamp(i)
    \/ \E i \in Writers : WriteOpusWrite(i)
    \/ GenerateFrame

SpecRtp == InitRtp /\ [][NextRtp]_vars

\* ------------------------------------------------------------- claims: RTP
\* C10: the RTP sequence numbers of the packets written to the audio track,
\* taken in the order they are written, form a contiguous sequence modulo
\* 2^16, for any interleaving of concurrent WriteOpus calls and of the
\* test-audio generator.
C10_SequenceContiguous ==
    \A k \in 1..(Len(rtp.track) - 1) :
        rtp.track[k + 1].seqNum = (rtp.track[k].seqNum + 1) % SeqMod

\* the pairs WriteOpus calls hold or have written
OpusPairs ==
    {<<rtp.w[i].seqNum, rtp.w[i].timestamp>> : i \in {j \in Writers : rtp.w[j].pc = "stamped"}}
    \cup {<<rtp.track[k].seqNum, rtp.track[k].timestamp>> :
            k \in {j \in 1..Len(rtp.track) : rtp.track[j].by = "WriteOpus"}}

FrameBytes == FrameSamples * 2 * 2

\* a resampler that returns its input, as ResampleMono does for equal rates
ResampleSame(inputBytes) == inputBytes

\* ResampleMono(input, 22050, 48000): the length of its output.  ratio is
\* the float64 48000/22050 and outputSamples the truncated product, which is
\* floor(inputSamples * 48000 / 22050) for inputs below 2^31 samples.
ResampleMono(inputBytes) ==
    LET inputSamples == inputBytes \div 2
        outputSamples == (inputSamples * OutputRate) \div InputRate
    IN outputSamples * 2

\* MonoToStereo: the length of its output
MonoToStereo(monoBytes) == (monoBytes \div 2) * 4

\* a padding that appends nothing
PaddingNone(len) == 0

\* Flush: the padding appended to a non-empty buffer
Padding(len) == FrameBytes - (len % FrameBytes)

\* the lengths of the chunks handed to ProcessChunk: empty, one byte, one
\* sample, an odd length, 147 samples (320 after resampling), the samples of
\* one and of two frames and a half, and one second of audio
ChunkBytes == {0, 1, 2, 295, 2 * 147, 2 * 441, 2 * 1103, 2 * InputRate}

PipeFresh ==
    [buffer |-> 0, emitted |-> 0, calls |-> 0, op |-> "NewAudioPipeline",
     in |-> 0, out |-> 0, pad |-> 0]

InitPipe ==
    /\ ServerInit
    /\ rtp = NoRtp /\ agent = Absent /\ cl = Absent /\ trk = Absent
    /\ reg = Absent /\ snd = Absent /\ lk = Absent
    /\ pipe = PipeFresh

\* AudioPipeline.ProcessChunk on the pipeline p: the pipeline it leaves
ProcessChunkOn(p, inputBytes) ==
    IF inputBytes = 0
    THEN [p EXCEPT !.calls = @ + 1, !.op = "ProcessChunk", !.in = 0,
                   !.out = 0, !.pad = 0]
    ELSE LET len == p.buffer + MonoToStereo(ResampleMono(inputBytes))
         IN [p EXCEPT !.buffer = len % FrameBytes,
                      !.emitted = @ + (len \div FrameBytes),
                      !.calls = @ + 1, !.op = "ProcessChunk",
                      !.in = inputBytes,
                      !.out = len \div FrameBytes, !.pad = 0]

\* AudioPipeline.Flush on the pipeline p
FlushOn(p) ==
    IF p.buffer > 0
    THEN LET len == p.buffer + Padding(p.buffer)
         IN [p EXCEPT !.buffer = len % FrameBytes,
                      !.emitted = @ + (len \div FrameBytes),
                      !.calls = @ + 1, !.op = "Flush", !.in = 0,
                      !.out = len \div FrameBytes,
                      !.pad = Padding(p.buffer)]
    ELSE [p EXCEPT !.calls = @ + 1, !.op = "Flush", !.in = 0,
                   !.out = 0, !.pad = 0]

\* a Reset that keeps the buffered bytes
ResetOnKeepsBuffer(p) ==
    [p EXCEPT !.calls = @ + 1, !.op = "Reset", !.in = 0, !.out = 0, !.pad = 0]

\* AudioPipeline.Reset on the pipeline p
ResetOn(p) ==
    [p EXCEPT !.buffer = 0, !.calls = @ + 1, !.op = "Reset",
              !.in = 0, !.out = 0, !.pad = 0]

ProcessChunk(inputBytes) ==
    /\ pipe.calls < MaxCalls
    /\ pipe' = ProcessChunkOn(pipe, inputBytes)
    /\ UNCHANGED exceptPipe

Flush ==
    /\ pipe.calls < MaxCalls
    /\ pipe' = FlushOn(pipe)
    /\ UNCHANGED exceptPipe

Reset ==
    /\ pipe.calls < MaxCalls
    /\ pipe' = ResetOn(pipe)
    /\ UNCHANGED exceptPipe

NextPipe ==
    \/ \E inputBytes \in ChunkBytes : ProcessChunk(inputBytes)
    \/ Flush
    \/ Reset

SpecPipe == InitPipe /\ [][NextPipe]_vars

\* ------------------------------------------------------------- claims: pipeline
\* a step that is a call of op
Called(op) == pipe'.calls = pipe.calls + 1 /\ pipe'.op = op

NoChan == 0
PacerWriter == 1

\* the PCM lengths Synthesize returns: nothing, exactly one frame, two
\* frames and a partial one
SynthBytes == {0, 2 * 441, 2 * 1103}

\* the transcripts of handleTranscript
Transcripts == {"", "stop"}

AgentIdle ==
    [pc |-> "idle", isSpeaking |-> FALSE, cancelSpeaking |-> NoChan,
     cancelCh |-> NoChan, closed |-> {}, pcm |-> 0, n |-> 0, i |-> 0,
     tick |-> FALSE, gtick |-> FALSE, tpc |-> "idle",
     speaks |-> 0, transcripts |-> 0, ticks |-> 0, tickAt |-> 0]

InitAgent ==
    /\ ServerInit
    /\ \E ta \in BOOLEAN :
        rtp = [rtpSeqNum |-> 0,
               rtpTimestamp |-> U32(0),
               calls |-> 0,
               gen |-> [seqNum |-> 0, timestamp |-> U32(0)],
               testAudio |-> ta,
               w |-> [i \in Writers |-> WIdle],
               track |-> <<>>]
    /\ agent = AgentIdle
    /\ pipe = PipeFresh
    /\ cl = Absent /\ trk = Absent
    /\ reg = Absent /\ snd = Absent /\ lk = Absent

\* speakResponse, the section under speakingMu (main.go:360-365)
SpeakStart ==
    /\ agent.pc = "idle"
    /\ agent.speaks < MaxSpeaks
    /\ agent' = [agent EXCEPT !.pc = "reset", !.isSpeaking = TRUE,
                              !.cancelSpeaking = agent.speaks + 1,
                              !.cancelCh = agent.speaks + 1,
                              !.speaks = @ + 1, !.pcm = 0, !.n = 0, !.i = 0]
    /\ UNCHANGED <<serverVars, rtp, cl, trk, reg, snd, lk, pipe>>

\* audioPipeline.Reset() (main.go:377)
SpeakReset ==
    /\ agent.pc = "reset"
    /\ pipe' = ResetOn(pipe)
    /\ agent' = [agent EXCEPT !.pc = "synth"]
    /\ UNCHANGED <<serverVars, rtp, cl, trk, reg, snd, lk>>

\* elevenlabsClient.Synthesize returns PCM (main.go:380)
Synthesize(pcmBytes) ==
    /\ agent.pc = "synth"
    /\ agent' = [agent EXCEPT !.pc = "chunk", !.pcm = pcmBytes]
    /\ UNCHANGED <<serverVars, rtp, cl, trk, reg, snd, lk, pipe>>

\* Synthesize fails: speakResponse returns (main.go:381-384)
SynthesizeError ==
    /\ agent.pc = "synth"
    /\ agent' = [agent EXCEPT !.pc = "return"]
    /\ UNCHANGED <<serverVars, rtp, cl, trk, reg, snd, lk, pipe>>

\* audioPipeline.ProcessChunk(pcmData) (main.go:389)
SpeakProcessChunk ==
    /\ agent.pc = "chunk"
    /\ pipe' = ProcessChunkOn(pipe, agent.pcm)
    /\ agent' = [agent EXCEPT !.pc = "flush", !.n = pipe'.out]
    /\ UNCHANGED <<serverVars, rtp, cl, trk, reg, snd, lk>>

\* audioPipeline.Flush(), the new ticker, and the loop's entry
\* (main.go:396-403)
SpeakFlush ==
    /\ agent.pc = "flush"
    /\ pipe' = FlushOn(pipe)
    /\ agent' = [agent EXCEPT !.n = @ + pipe'.out, !.i = 0, !.tick = FALSE,
                              !.pc = IF agent.n + pipe'.out = 0 THEN "return"
                                     ELSE "select"]
    /\ UNCHANGED <<serverVars, rtp, cl, trk, reg, snd, lk>>

\* the select's case <-cancelCh: ready once the channel is closed
\* (main.go:405-407)
SelectCancel ==
    /\ agent.pc = "select"
    /\ agent.cancelCh \in agent.closed
    /\ agent' = [agent EXCEPT !.pc = "return", !.tick = FALSE]
    /\ UNCHANGED <<serverVars, rtp, cl, trk, reg, snd, lk, pipe>>

\* the select's case <-ticker.C: ready once a tick waits in the channel; with
\* both cases ready the select takes either (main.go:408)
SelectTick ==
    /\ agent.pc = "select"
    /\ agent.tick
    /\ agent' = [agent EXCEPT !.pc = "stamp", !.tick = FALSE]
    /\ UNCHANGED <<serverVars, rtp, cl, trk, reg, snd, lk, pipe>>

\* client.WriteOpus(opusData), the section under rtpMu (main.go:409)
PacerStamp ==
    /\ agent.pc = "stamp"
    /\ StampPacket(PacerWriter)
    /\ agent' = [agent EXCEPT !.pc = "write"]
    /\ UNCHANGED <<serverVars, cl, trk, reg, snd, lk, pipe>>

\* client.WriteOpus(opusData), the write to the track, and the loop's next
\* round (main.go:409-417, 404)
PacerWrite ==
    /\ agent.pc = "write"
    /\ WritePacket(PacerWriter)
    /\ agent' = [agent EXCEPT !.i = @ + 1,
                              !.tick = IF agent.i + 1 = agent.n THEN FALSE ELSE @,
                              !.pc = IF agent.i + 1 = agent.n THEN "return"
                                     ELSE "select"]
    /\ UNCHANGED <<serverVars, cl, trk, reg, snd, lk, pipe>>

\* speakResponse's deferred function (main.go:367-372)
SpeakReturn ==
    /\ agent.pc = "return"
    /\ agent' = [agent EXCEPT !.pc = "idle", !.isSpeaking = FALSE,
                              !.cancelSpeaking = NoChan]
    /\ UNCHANGED <<serverVars, rtp, cl, trk, reg, snd, lk, pipe>>

\* handleTranscript reads isSpeaking under speakingMu (main.go:205-212)
HandleTranscript(transcript) ==
    /\ agent.tpc = "idle"
    /\ agent.transcripts < MaxTranscripts
    /\ agent' = [agent EXCEPT !.transcripts = @ + 1,
                              !.tpc = IF agent.isSpeaking /\ transcript # ""
                                      THEN "interrupt" ELSE "idle"]
    /\ UNCHANGED <<serverVars, rtp, cl, trk, reg, snd, lk, pipe>>

\* interrupt(), the section under speakingMu (main.go:258-263)
Interrupt ==
    /\ agent.tpc = "interrupt"
    /\ agent' = [agent EXCEPT
                    !.tpc = "idle",
                    !.closed = IF agent.cancelSpeaking # NoChan
                               THEN @ \cup {agent.cancelSpeaking} ELSE @,
                    !.cancelSpeaking = NoChan]
    /\ UNCHANGED <<serverVars, rtp, cl, trk, reg, snd, lk, pipe>>

\* 20 ms pass: the pacer's ticker, if there is one, and the generator's
\* ticker each put a tick into their channel (of capacity one)
Tick ==
    /\ agent.ticks < MaxTicks
    /\ agent' = [agent EXCEPT
                    !.ticks = @ + 1,
                    !.tickAt = Len(rtp.track),
                    !.tick = agent.pc \in {"select", "stamp", "write"},
                    !.gtick = rtp.testAudio]
    /\ UNCHANGED <<serverVars, rtp, cl, trk, reg, snd, lk, pipe>>

\* StartGenerating's case <-ticker.C (part_000:453-459)
StartGenerating ==
    /\ agent.gtick
    /\ WriteFrame
    /\ agent' = [agent EXCEPT !.gtick = FALSE]
    /\ UNCHANGED <<serverVars, cl, trk, reg, snd, lk, pipe>>

NextAgent ==
    \/ SpeakStart
    \/ SpeakReset
    \/ \E pcmBytes \in SynthBytes : Synthesize(pcmBytes)
    \/ SynthesizeError
    \/ SpeakProcessChunk
    \/ SpeakFlush
    \/ SelectCancel
    \/ SelectTick
    \/ PacerStamp
    \/ PacerWrite
    \/ SpeakReturn
    \/ \E transcript \in Transcripts : HandleTranscript(transcript)
    \/ Interrupt
    \/ Tick
    \/ StartGenerating

SpecAgent == InitAgent /\ [][NextAgent]_vars

\* ------------------------------------------------------------- claims: agent
\* C12: once interrupt() has signalled the cancellation handle of the
\* utterance in progress, the frame-pacer loop sends no further frame: when it
\* next waits in its select with the handle closed and frames left, it does
\* not go on to write a frame; and the pipeline buffer is empty then.
C12_InterruptStopsEmission ==
    [][(agent.pc = "select" /\ agent.cancelCh \in agent.closed) =>
            /\ agent'.pc # "stamp"
            /\ pipe.buffer = 0]_vars

\* C13: between two consecutive 20 ms ticks at most one RTP frame is written
\* to the client's audio track, counting the pacer of speakResponse and the
\* test-audio generator.
C13_NoBurst == Len(rtp.track) - agent.tickAt <= 1

\* ------------------------------------------------------------- claims: peer loss
\* the number of peer_left{id} a step writes for Peer object q
LeftDelta(id, q) ==
    Got(sent', peers', "peer_left", id, q)
        - (IF q <= Len(peers) THEN Got(sent, peers, "peer_left", id, q) ELSE 0)

HandlerStep ==
    \/ \E c \in ConcConnIds : JoinAddPeer(c)
    \/ \E c \in ConcConnIds : JoinSnap(c)
    \/ \E c \in ConcConnIds, e \in PeerIds : JoinTrack(c, e)
    \/ \E c \in ConcConnIds : JoinTrackSend(c)
    \/ \E c \in ConcConnIds : JoinOffer(c)
    \/ \E c \in ConcConnIds : JoinReturn(c)
    \/ \E p \in PeerIds : StateClosed(p)
    \/ \E t \in Threads : DiscNotify(t)
    \/ \E t \in Threads : DiscClose(t)
    \/ \E p \in PeerIds : TrackSnap(p)
    \/ \E p \in PeerIds, o \in PeerIds : TrackFan(p, o)
    \/ \E p \in PeerIds : TrackFanSend(p)
    \/ \E p \in PeerIds : TrackDone(p)

SpecLive == Init /\ [][Next]_vars /\ WF_vars(HandlerStep)

\* the read loop of Peer p's connection has ended, or a connection-state
\* callback of p has seen failed, disconnected or closed, and no run of
\* handlePeerDisconnect for p has come to its end
PeerLost(p) ==
    /\ p <= Len(peers)
    /\ peers[p].Room # NoRoom
    /\ ~peers[p].closed
    /\ \/ th[ConnT(peers[p].Conn)].pc = "done"
       \/ th[<<"lost", p>>].pc # "idle"
       \/ th[<<"closed", p>>].pc # "idle"

\* Peer p is out of its room and every peer registered there under another
\* id holds a peer_left for p's id
Announced(p) ==
    /\ p <= Len(peers)
    /\ peers[p].Room \in DOMAIN Rooms
    /\ ~Registered(p, peers[p].Room)
    /\ \A q \in RoomPeers(Rooms[peers[p].Room]) :
          peers[q].ID # peers[p].ID => Got(sent, peers, "peer_left", peers[p].ID, q) >= 1

\* C15: peer loss is always announced: whenever the read loop of an
\* established peer P ends or P's connection state becomes failed, closed or
\* disconnected, P is removed from its room and every peer still in the room
\* is eventually sent peer_left{client_id=P}.
C15_PeerLossAnnounced ==
    \A p \in PeerIds : PeerLost(p) ~> Announced(p)

\* ------------------------------------------------------------- SpecClient
\* The programmatic client's connection lifecycle: Connect and Disconnect,
\* each of which holds Client.mu from entry to return.  cl is a record:
\*   connected, Room          Client's fields
\*   conn, peerConnection, audioTrack
\*                            NoObject, or the number of the Connect call
\*                            that made the object
\*   done                     Client.done: "open" or "closed"
\*   joins                    the join messages sent
\*   connCloses, pcCloses     the calls of conn.Close and peerConnection.Close
\*   panicked                 close of the closed channel done has panicked
\*   calls, op, prev, ret     the calls so far, the last call, the one before
\*                            it, and what the last call returned
NoObject == 0

\* the rooms handed to Connect
ConnectRooms == {"r", "q"}

\* how far a Connect gets: the step that fails, or none
Outcomes == {"ok", "Dial", "createPeerConnection", "NewTrackLocalStaticRTP", "AddTrack"}

\* NewClient
NewClient ==
    [connected |-> FALSE, Room |-> "", conn |-> NoObject,
     peerConnection |-> NoObject, audioTrack |-> NoObject, done |-> "open",
     joins |-> 0, connCloses |-> 0, pcCloses |-> 0, panicked |-> FALSE,
     calls |-> 0, op |-> "NewClient", prev |-> "", ret |-> ""]

InitClient ==
    /\ ServerInit
    /\ rtp = NoRtp /\ agent = Absent /\ trk = Absent /\ pipe = Absent
    /\ reg = Absent /\ snd = Absent /\ lk = Absent
    /\ cl = NewClient

\* c with the call op counted
Calling(c, op) == [c EXCEPT !.calls = @ + 1, !.prev = c.op, !.op = op]

\* Connect past its connected test (part_000:89-184)
Dial(c, room, outcome) ==
    LET k == c.calls + 1
        c1 == [Calling(c, "Connect") EXCEPT !.Room = room]
        c2 == [c1 EXCEPT !.conn = k]
        c3 == [c2 EXCEPT !.peerConnection = k]
        c4 == [c3 EXCEPT !.audioTrack = k]
    IN CASE outcome = "Dial" ->
              [c1 EXCEPT !.ret = "websocket dial failed"]
         [] outcome = "createPeerConnection" ->
              [c2 EXCEPT !.connCloses = @ + 1,
                         !.ret = "failed to create peer connection"]
         [] outcome = "NewTrackLocalStaticRTP" ->
              [c3 EXCEPT !.pcCloses = @ + 1, !.connCloses = @ + 1,
                         !.ret = "failed to create audio track"]
         [] outcome = "AddTrack" ->
              [c4 EXCEPT !.pcCloses = @ + 1, !.connCloses = @ + 1,
                         !.ret = "failed to add track"]
         [] OTHER ->
              [c4 EXCEPT !.joins = @ + 1, !.connected = TRUE, !.ret = "nil"]

\* a Connect that does not test connected
ConnectUnchecked(c, room, outcome) == Dial(c, room, outcome)

\* Client.Connect(room)
ConnectOn(c, room, outcome) ==
    IF c.connected
    THEN [Calling(c, "Connect") EXCEPT !.ret = "already connected"]
    ELSE Dial(c, room, outcome)

\* Disconnect past its connected test (part_000:359-371)
CloseAll(c) ==
    LET d == Calling(c, "Disconnect") IN
    IF c.done = "closed"
    THEN [d EXCEPT !.panicked = TRUE, !.ret = "panic"]
    ELSE [d EXCEPT !.done = "closed",
                   !.pcCloses = IF c.peerConnection # NoObject THEN @ + 1 ELSE @,
                   !.connCloses = IF c.conn # NoObject THEN @ + 1 ELSE @,
                   !.connected = FALSE, !.ret = "nil"]

\* a Disconnect that does not test connected
DisconnectUnchecked(c) == CloseAll(c)

\* Client.Disconnect()
DisconnectOn(c) ==
    IF ~c.connected
    THEN [Calling(c, "Disconnect") EXCEPT !.ret = "nil"]
    ELSE CloseAll(c)

Connect(room, outcome) ==
    /\ ~cl.panicked
    /\ cl.calls < MaxClientCalls
    /\ cl' = ConnectOn(cl, room, outcome)
    /\ UNCHANGED exceptCl

ClientDisconnect ==
    /\ ~cl.panicked
    /\ cl.calls < MaxClientCalls
    /\ cl' = DisconnectOn(cl)
    /\ UNCHANGED exceptCl

NextClient ==
    \/ \E room \in ConnectRooms, outcome \in Outcomes : Connect(room, outcome)
    \/ ClientDisconnect

SpecClient == InitClient /\ [][NextClient]_vars

\* ------------------------------------------------------------- claims: client
\* what Connect and Disconnect can change of the client, but for the
\* record of the call itself
ClientState(c) ==
    <<c.connected, c.Room, c.conn, c.peerConnection, c.audioTrack, c.done,
      c.joins, c.connCloses, c.pcCloses, c.panicked>>

\* C16: Client.Connect is not re-entrant: a Connect on a client that is
\* connected returns an error and changes nothing: Room, conn,
\* peerConnection, audioTrack and connected keep their values and no join
\* message is sent.
C16_ConnectNotReentrant ==
    [][(cl.connected /\ cl'.calls = cl.calls + 1 /\ cl'.op = "Connect") =>
            /\ cl'.ret = "already connected"
            /\ cl'.Room = cl.Room
            /\ cl'.conn = cl.conn
            /\ cl'.peerConnection = cl.peerConnection
            /\ cl'.audioTrack = cl.audioTrack
            /\ cl'.connected
            /\ cl'.joins = cl.joins
            /\ ClientState(cl') = ClientState(cl)]_vars

\* C16 witness: a Connect was refused on a connected client
C16_Witness ==
    /\ cl.op = "Connect"
    /\ cl.ret = "already connected"
    /\ cl.connected
    /\ cl.joins = 1

\* C17: Client.Disconnect is idempotent: a Disconnect on a client that is
\* not connected (a second Disconnect, or one on a client that never
\* connected) returns nil, closes nothing and leaves the client not
\* connected.
C17_ClientDisconnectIdempotent ==
    [][(~cl.connected /\ cl'.calls = cl.calls + 1 /\ cl'.op = "Disconnect") =>
            /\ cl'.ret = "nil"
            /\ ~cl'.connected
            /\ cl'.connCloses = cl.connCloses
            /\ cl'.pcCloses = cl.pcCloses
            /\ ClientState(cl') = ClientState(cl)]_vars

\* C17 witness: a second Disconnect followed the Disconnect of a connected
\* client, and each object was closed once
C17_Witness ==
    /\ cl.op = "Disconnect" /\ cl.prev = "Disconnect"
    /\ cl.ret = "nil"
    /\ cl.joins = 1
    /\ cl.connCloses = 1 /\ cl.pcCloses = 1
    /\ cl.done = "closed"
    /\ ~cl.connected

\* ------------------------------------------------------------- SpecTrack
\* The stream id of a forwarding track, from the server that names it to the
\* client that receives it.  A string is the sequence of its characters.
\* trk is a record:
\*   ID         the client_id of the peer whose audio the track forwards
\*   streamID   the stream id of the forwarding track
\*   peerID     what the client's OnTrack callback hands to onAudio
\*   pc         where the track is: "joined", "forwarded", "delivered"
Prefix == <<"s", "t", "r", "e", "a", "m", "-">>
Alphabet == {"a", "s", "-"}

\* the strings over Alphabet of length n
RECURSIVE Strings(_)
Strings(n) ==
    IF n = 0 THEN {<<>>}
    ELSE {Append(s, ch) : s \in Strings(n - 1), ch \in Alphabet}

\* the client ids of a join message: the short strings, and "stream-"
\* followed by one
ClientIDs ==
    LET short == UNION {Strings(n) : n \in 0..MaxIdLen}
    IN short \cup {Prefix \o s : s \in UNION {Strings(n) : n \in 0..1}}

InitTrack ==
    /\ ServerInit
    /\ rtp = NoRtp /\ agent = Absent /\ cl = Absent /\ pipe = Absent
    /\ reg = Absent /\ snd = Absent /\ lk = Absent
    /\ \E id \in ClientIDs :
        trk = [ID |-> id, streamID |-> <<>>, peerID |-> <<>>, pc |-> "joined"]

\* fmt.Sprintf("stream-%s", peer.ID) (handlers.go:112-116)
StreamIDOf(id) == Prefix \o id

\* the client's OnTrack callback: the peer id it takes from the stream id
\* (part_000:158-161)
PeerIDOf(streamID) ==
    IF Len(streamID) > 7 /\ SubSeq(streamID, 1, 7) = Prefix
    THEN SubSeq(streamID, 8, Len(streamID))
    ELSE streamID

\* the server's OnTrack callback makes the forwarding track
NewForwardingTrack ==
    /\ trk.pc = "joined"
    /\ trk' = [trk EXCEPT !.streamID = StreamIDOf(trk.ID), !.pc = "forwarded"]
    /\ UNCHANGED exceptTrk

\* the client's OnTrack callback runs for the forwarding track
ClientOnTrack ==
    /\ trk.pc = "forwarded"
    /\ trk' = [trk EXCEPT !.peerID = PeerIDOf(trk.streamID), !.pc = "delivered"]
    /\ UNCHANGED exceptTrk

NextTrack ==
    \/ NewForwardingTrack
    \/ ClientOnTrack

SpecTrack == InitTrack /\ [][NextTrack]_vars

\* ------------------------------------------------------------- claims: stream id
\* C18: the stream id round trip: the server names the forwarding track of
\* peer X "stream-" followed by X and the client's OnTrack callback delivers
\* exactly X, for every X, the empty id and ids that begin with "stream-"
\* included.
C18_StreamIdRoundTrip ==
    trk.pc = "delivered" => trk.peerID = trk.ID

\* ------------------------------------------------------------- claims: locks
\* the Peer mutexes goroutine t holds from one step to the next
Holds(t) == IF th[t].pc = "j_tracks_send" THEN {th[t].cur} ELSE {}

\* a step writes a message to Peer q through q.SendMessage
SentVia(q) ==
    \E m \in BagToSet(sent'[peers'[q].Conn]) :
        /\ m.via = q
        /\ CopiesIn(m, sent'[peers'[q].Conn]) > CopiesIn(m, sent[peers'[q].Conn])

\* the step is one of goroutine t and locks the mutex of Peer q in it: a
\* SendMessage to q, the existing-track loop's existingPeer.mu.Lock, or
\* OnTrack's peer.mu.Lock
TakesMu(t, q) ==
    /\ th'[t] # th[t]
    /\ \/ SentVia(q)
       \/ th[t].pc = "j_tracks" /\ th'[t].pc = "j_tracks_send" /\ th'[t].cur = q
       \/ t = <<"track", q>> /\ th[t].pc = "idle" /\ th'[t].pc = "t_snap"

\* C21: no server goroutine acquires the mutex of one Peer while it holds
\* the mutex of another Peer, in particular not while handleJoin adds the
\* existing peers' forwarding tracks to the new peer and renegotiates it.
C21_NoNestedPeerMutex ==
    [][\A t \in Threads, q \in 1..Len(peers') : TakesMu(t, q) => Holds(t) = {}]_vars

\* ------------------------------------------------------------- claims: subscriptions
\* C27: at every existing peer E (registered in the room, its join
\* complete, when the join of N begins) the peer_joined for a new peer N is
\* sent before any offer that adds N's forwarding track to E: whenever a
\* forwarding track owned by N is attached toward E, or its offer is on its
\* way to E, E has been sent peer_joined{client_id=N}.
C27_PeerJoinedBeforeTrackOffer ==
    \A n \in 1..Len(peers) : \A e \in peers[n].before :
        (peers[e].senders[n] > 0 \/ Negotiating(<<"track", n>>, e)) =>
            Got(sent, peers, "peer_joined", peers[n].ID, e) >= 1

\* C27 witness: the forwarding track of a peer that joined second is attached
\* toward the peer that was there before it, which holds its peer_joined
C27_Witness ==
    \E n \in 1..Len(peers) : \E e \in peers[n].before :
        /\ peers[e].senders[n] > 0
        /\ Got(sent, peers, "peer_joined", peers[n].ID, e) = 1
        /\ th[<<"track", n>>].pc = "done"

\* no peer has left: no read error, no connection-state change, no
\* PeerConnection closed
NoneLeft ==
    /\ lost = 0
    /\ errs = 0
    /\ \A p \in 1..Len(peers) : ~peers[p].closed

\* C28: no subscription is missed: with no peer leaving, once all handlers
\* have finished every peer B registered in a room has among its outgoing
\* tracks every forwarding track owned by every other peer A registered in
\* that room.
C28_NoSubscriptionMissed ==
    (Quiescent /\ NoneLeft) =>
        \A r \in DOMAIN Rooms : \A id \in DOMAIN Rooms[r] :
            \A a \in GetOtherPeers(Rooms[r], id) :
                peers[a].LocalTracks => a \in Outgoing(Rooms[r][id])

\* C28 witness: handlers at rest, two peers in a room, one owns a forwarding
\* track and the other has it among its outgoing tracks
C28_Witness ==
    /\ Quiescent /\ NoneLeft
    /\ \E r \in DOMAIN Rooms : \E id \in DOMAIN Rooms[r] :
        \E a \in GetOtherPeers(Rooms[r], id) :
            peers[a].LocalTracks /\ a \in Outgoing(Rooms[r][id])

\* C29: a forwarding track is added to a given subscriber at most once: the
\* existing-track loop of N's join and the OnTrack fan-out of E never both
\* add E's forwarding track to N.
C29_TrackAddedAtMostOnce ==
    \A p \in 1..Len(peers) : \A o \in PeerIds : peers[p].senders[o] <= 1

\* C30: the disconnect path of a peer removes only that peer: a step of
\* handlePeerDisconnect for Peer p leaves every other Peer registered where
\* it was, also one that joined under p's id.
C30_DisconnectRemovesOnlyThatPeer ==
    [][\A t \in Threads, q \in 1..Len(peers) :
        (th[t].pc # "d_notify" /\ th'[t].pc = "d_notify" /\ th'[t].peer # q
            /\ Registered(q, peers[q].Room))
        => Registered(q, peers[q].Room)']_vars

\* ------------------------------------------------------------- registry
\* The room registry on its own: roomManager.Rooms, its mutex rm.mu, the Room
\* objects allocated so far and the goroutines inside GetOrCreateRoom.
MaxCallers == 2
MaxRegCalls == 3

Callers == 1..MaxCallers
RegIds == {"r", "q"}
NoHolder == 0

\* a sync.Mutex can be taken when nobody holds it
CanLockAlways(mu) == TRUE
CanLock(mu) == mu = NoHolder

CallIdle == [pc |-> "idle", roomID |-> NoRoom, room |-> 0]

\* roomManager as the package constructs it, and no call made yet
InitReg ==
    /\ ServerInit
    /\ rtp = Absent /\ agent = Absent /\ cl = Absent /\ trk = Absent /\ pipe = Absent
    /\ snd = Absent /\ lk = Absent
    /\ reg = [Rooms |-> EmptyMap, mu |-> NoHolder, made |-> <<>>, got |-> {},
              calls |-> 0, call |-> [k \in Callers |-> CallIdle]]

RegAt(k, pc) == reg.call[k].pc = pc

\* a handler calls roomManager.GetOrCreateRoom(roomID)
GetOrCreateRoomCall(k, roomID) ==
    /\ RegAt(k, "idle")
    /\ reg.calls < MaxRegCalls
    /\ reg' = [reg EXCEPT !.calls = @ + 1,
                          !.call[k] = [pc |-> "lock", roomID |-> roomID, room |-> 0]]
    /\ UNCHANGED exceptReg

\* rm.mu.Lock()
GetOrCreateRoomLock(k) ==
    /\ RegAt(k, "lock")
    /\ CanLock(reg.mu)
    /\ reg' = [reg EXCEPT !.mu = k, !.call[k].pc = "check"]
    /\ UNCHANGED exceptReg

\* if room, exists := rm.Rooms[roomID]; exists { return room }
GetOrCreateRoomCheck(k) ==
    /\ RegAt(k, "check")
    /\ LET id == reg.call[k].roomID IN
       reg' = IF id \in DOMAIN reg.Rooms
              THEN [reg EXCEPT !.call[k].room = reg.Rooms[id], !.call[k].pc = "unlock"]
              ELSE [reg EXCEPT !.call[k].pc = "insert"]
    /\ UNCHANGED exceptReg

\* room := &Room{ID: roomID, ...}; rm.Rooms[roomID] = room
GetOrCreateRoomInsert(k) ==
    /\ RegAt(k, "insert")
    /\ LET id == reg.call[k].roomID
           room == Len(reg.made) + 1
       IN reg' = [reg EXCEPT !.made = Append(@, id),
                             !.Rooms = MapPut(@, id, room),
                             !.call[k].room = room,
                             !.call[k].pc = "unlock"]
    /\ UNCHANGED exceptReg

\* the deferred rm.mu.Unlock(), and the return of the Room
GetOrCreateRoomReturn(k) ==
    /\ RegAt(k, "unlock")
    /\ reg' = [reg EXCEPT !.mu = NoHolder,
                          !.got = @ \cup {<<reg.call[k].roomID, reg.call[k].room>>},
                          !.call[k] = CallIdle]
    /\ UNCHANGED exceptReg

NextReg ==
    \/ \E k \in Callers, roomID \in RegIds : GetOrCreateRoomCall(k, roomID)
    \/ \E k \in Callers : GetOrCreateRoomLock(k)
    \/ \E k \in Callers : GetOrCreateRoomCheck(k)
    \/ \E k \in Callers : GetOrCreateRoomInsert(k)
    \/ \E k \in Callers : GetOrCreateRoomReturn(k)

SpecReg == InitReg /\ [][NextReg]_vars

\* C22: GetOrCreateRoom's check and insert are atomic: every Room object ever
\* allocated is the one registered under its id and stays so (at most one
\* Room per id, never replaced, never removed), and every call returns the
\* Room registered under the id it asked for, so calls with the same id
\* return the same object.
C22_GetOrCreateRoomAtomic ==
    /\ \A i \in 1..Len(reg.made) :
           reg.made[i] \in DOMAIN reg.Rooms /\ reg.Rooms[reg.made[i]] = i
    /\ \A g \in reg.got : g[1] \in DOMAIN reg.Rooms /\ reg.Rooms[g[1]] = g[2]

\* at least two calls were made, exactly one Room was created, it was
\* returned, and every caller is back
C22_Witness ==
    /\ \E id \in RegIds : <<id, 1>> \in reg.got
    /\ reg.calls >= 2
    /\ \A k \in Callers : RegAt(k, "idle")
    /\ Len(reg.made) = 1

\* ------------------------------------------------------------- dispatch
\* handleWebSocket's switch on msg.Type, with the messages a client can send
\* that the other specifications leave out: unknown types, messages before
\* the join, and messages whose fields are missing (the zero value "" after
\* ReadJSON).
MsgTypes == {"offer", "answer", "candidate", "screenshot", "ping"}

\* the switch runs no handler: there is no case for the type (and no
\* default), or the case is guarded by peer != nil
Ignores(type, p) ==
    \/ type \notin {"join", "offer", "answer", "candidate", "screenshot"}
    \/ type \in {"offer", "answer", "candidate", "screenshot"} /\ p = NoPeer

\* the read loop's goroutine after a message no handler ran for
AfterIgnoredReturns(t, type) == [t EXCEPT !.pc = "done", !.msg = type]
AfterIgnored(t, type) == [t EXCEPT !.pc = "read", !.msg = type]

ReadIgnored(c, type) ==
    /\ Reads(c)
    /\ Ignores(type, connPeer[c])
    /\ th' = [th EXCEPT ![ConnT(c)] = AfterIgnored(@, type)]
    /\ UNCHANGED <<Rooms, peers, connPeer, sent, lost, tracks, errs, shots, lastShot,
                   clientVars>>

InitMsg ==
    /\ ServerInit
    /\ rtp = Absent /\ agent = Absent /\ cl = Absent /\ trk = Absent /\ pipe = Absent
    /\ reg = Absent /\ snd = Absent /\ lk = Absent

NextMsg ==
    \/ \E c \in ConcConnIds, type \in MsgTypes : ReadIgnored(c, type)
    \/ \E c \in ConcConnIds, room \in JoinRooms \cup {""}, id \in JoinIds \cup {""} :
           ReadJoin(c, room, id)
    \/ \E c \in ConcConnIds : JoinAddPeer(c)
    \/ \E c \in ConcConnIds : JoinSnap(c)
    \/ \E c \in ConcConnIds, e \in PeerIds : JoinTrack(c, e)
    \/ \E c \in ConcConnIds : JoinOffer(c)
    \/ \E c \in ConcConnIds : JoinReturn(c)
    \/ \E c \in ConcConnIds, targetID \in TargetIds, data \in Data \cup {""} :
           ReadScreenshot(c, targetID, data)

SpecMsg == InitMsg /\ [][NextMsg]_vars

\* the read loop of connection c drops a message
IgnoredStep(c) ==
    /\ th'[ConnT(c)].msg # ""
    /\ th'[ConnT(c)].msg # th[ConnT(c)].msg

\* C23: a message of unknown type, and an offer, answer, candidate or
\* screenshot read before any join on the connection, is ignored: the step
\* changes no room and no peer, writes to no socket, starts no other
\* goroutine, and the loop is back at its next ReadJSON.
C23_IgnoredMessage ==
    [][\A c \in ConcConnIds :
          IgnoredStep(c) =>
              /\ UNCHANGED <<Rooms, peers, connPeer, sent>>
              /\ th'[ConnT(c)].pc = "read"
              /\ \A t \in Threads \ {ConnT(c)} : th'[t] = th[t]]_vars

\* one connection dropped an offer, answer, candidate or screenshot it read
\* before any join, and an established peer's connection dropped a message
\* of unknown type
C23_Witness ==
    \E c, d \in ConcConnIds :
        /\ connPeer[c] = NoPeer
        /\ th[ConnT(c)].msg \in {"offer", "answer", "candidate", "screenshot"}
        /\ th[ConnT(c)].pc = "read"
        /\ connPeer[d] # NoPeer
        /\ th[ConnT(d)].msg = "ping"
        /\ th[ConnT(d)].pc = "read"
        /\ Rooms # EmptyMap

\* the messages written so far to any socket
AllSent == UNION {BagToSet(sent[c]) : c \in ConnIds}

\* C24: a message missing a field required for its type is ignored: a join
\* without room or without client_id constructs no Peer, registers no room
\* and broadcasts no peer_joined, and a screenshot without target_id or
\* without data is forwarded to nobody.
C24_MissingFieldIgnored ==
    /\ \A p \in 1..Len(peers) : peers[p].ID # ""
    /\ "" \notin DOMAIN Rooms
    /\ \A m \in AllSent :
           /\ ~(m.type = "peer_joined" /\ m.client_id = "")
           /\ ~(m.type = "screenshot" /\ m.data = "")
    /\ (shots = 1 /\ (lastShot.target_id = "" \/ lastShot.data = "")) =>
           \A m \in AllSent : m.type # "screenshot"

\* ------------------------------------------------------------- senders
\* The writes to the signaling sockets on their own: the Peer objects of one
\* room with their Conn and their mutex, and the goroutines that call
\* Peer.SendMessage, either once (the ICE-candidate callback, the offer of a
\* renegotiation, the answer, the screenshot forward) or for every peer of a
\* Room.BroadcastExcept.  The room's map is fixed while a broadcast holds the
\* room's read lock.
MaxSenders == 2
MaxSndPeers == 3
MaxSends == 3

Senders == 1..MaxSenders
SndPeerIds == 1..MaxSndPeers

SenderIdle ==
    [pc |-> "idle", kind |-> "none", all |-> {}, todo |-> {}, cur |-> NoPeer,
     attempted |-> <<>>, failed |-> {}]

InitSend ==
    /\ ServerInit
    /\ rtp = Absent /\ agent = Absent /\ cl = Absent /\ trk = Absent /\ pipe = Absent
    /\ reg = Absent /\ lk = Absent
    /\ snd = [Peers |-> <<>>, room |-> EmptyMap,
              mu |-> [p \in SndPeerIds |-> NoHolder],
              sends |-> 0, s |-> [k \in Senders |-> SenderIdle]]

\* the connections and ids a join can name: one already used or the next
SndConns == 1..Min(Cardinality({snd.Peers[p].Conn : p \in 1..Len(snd.Peers)}) + 1, MaxSndPeers)
SndIds == {IdNames[i] : i \in 1..Min(Cardinality(DOMAIN snd.room) + 1, MaxSndPeers)}

SeqToSet(q) == {q[i] : i \in 1..Len(q)}

\* the goroutines writing to connection c: inside p.Conn.WriteJSON
Writing(c) == {k \in Senders : snd.s[k].pc = "write" /\ snd.Peers[snd.s[k].cur].Conn = c}

\* handleWebSocket case "join" -> handleJoin: &Peer{ID, Conn: conn} and
\* room.AddPeer(peer), which takes the room's write lock
SendJoin(c, id) ==
    /\ Len(snd.Peers) < MaxSndPeers
    /\ \A k \in Senders : snd.s[k].kind # "broadcast"
    /\ snd' = [snd EXCEPT !.Peers = Append(@, [ID |-> id, Conn |-> c]),
                          !.room = MapPut(@, id, Len(snd.Peers) + 1)]
    /\ UNCHANGED exceptSnd

\* Room.BroadcastExcept(excludeID, msg): r.mu.RLock and the range over r.Peers
BroadcastExceptStart(k, excludeID) ==
    /\ snd.s[k].pc = "idle"
    /\ snd.sends < MaxSends
    /\ snd' = [snd EXCEPT !.sends = @ + 1,
                          !.s[k] = [SenderIdle EXCEPT
                                       !.pc = "loop", !.kind = "broadcast",
                                       !.all = GetOtherPeers(snd.room, excludeID),
                                       !.todo = GetOtherPeers(snd.room, excludeID)]]
    /\ UNCHANGED exceptSnd

\* the range's next entry with id != excludeID, in the map's order
BroadcastExceptNext(k, p) ==
    /\ snd.s[k].pc = "loop"
    /\ p \in snd.s[k].todo
    /\ snd' = [snd EXCEPT !.s[k].pc = "lock", !.s[k].cur = p, !.s[k].todo = @ \ {p}]
    /\ UNCHANGED exceptSnd

\* a SendMessage outside a broadcast, to Peer object p
SendMessageCall(k, p) ==
    /\ snd.s[k].pc = "idle"
    /\ snd.sends < MaxSends
    /\ p \in 1..Len(snd.Peers)
    /\ snd' = [snd EXCEPT !.sends = @ + 1,
                          !.s[k] = [SenderIdle EXCEPT
                                       !.pc = "lock", !.kind = "direct", !.cur = p]]
    /\ UNCHANGED exceptSnd

\* Peer.SendMessage: p.mu.Lock()
SendMessageLock(k) ==
    /\ snd.s[k].pc = "lock"
    /\ CanLock(snd.mu[snd.s[k].cur])
    /\ snd' = [snd EXCEPT !.mu[snd.s[k].cur] = k,
                          !.s[k].pc = "write",
                          !.s[k].attempted = Append(@, snd.s[k].cur)]
    /\ UNCHANGED exceptSnd

\* the sender after SendMessage has returned: BroadcastExcept discards the
\* error and goes on with the range
AfterSendAbort(r, ok) ==
    IF r.kind = "broadcast" /\ ok THEN [r EXCEPT !.pc = "loop", !.cur = NoPeer]
    ELSE SenderIdle
AfterSend(r, ok) ==
    IF r.kind = "broadcast" THEN [r EXCEPT !.pc = "loop", !.cur = NoPeer]
    ELSE SenderIdle

\* Peer.SendMessage: p.Conn.WriteJSON(msg) returns nil or an error, and the
\* deferred p.mu.Unlock()
SendMessageWrite(k, ok) ==
    /\ snd.s[k].pc = "write"
    /\ snd' = [snd EXCEPT
                  !.mu[snd.s[k].cur] = NoHolder,
                  !.s[k] = AfterSend([@ EXCEPT !.failed =
                                         IF ok THEN @ ELSE @ \cup {snd.s[k].cur}], ok)]
    /\ UNCHANGED exceptSnd

\* the range is exhausted: the deferred r.mu.RUnlock()
BroadcastExceptReturn(k) ==
    /\ snd.s[k].pc = "loop"
    /\ snd.s[k].todo = {}
    /\ snd' = [snd EXCEPT !.s[k] = SenderIdle]
    /\ UNCHANGED exceptSnd

NextSend ==
    \/ \E c \in SndConns, id \in SndIds : SendJoin(c, id)
    \/ \E k \in Senders, excludeID \in SndIds : BroadcastExceptStart(k, excludeID)
    \/ \E k \in Senders, p \in SndPeerIds : BroadcastExceptNext(k, p)
    \/ \E k \in Senders, p \in SndPeerIds : SendMessageCall(k, p)
    \/ \E k \in Senders : SendMessageLock(k)
    \/ \E k \in Senders, ok \in BOOLEAN : SendMessageWrite(k, ok)
    \/ \E k \in Senders : BroadcastExceptReturn(k)

SpecSend == InitSend /\ [][NextSend]_vars

\* C25: a send failure to one recipient does not abort a broadcast: when
\* BroadcastExcept(x, msg) ends, a send has been attempted to every peer of
\* the room other than x, whichever of the sends failed.
C25_BroadcastSurvivesSendFailure ==
    [][\A k \in Senders :
          (snd.s[k].kind = "broadcast" /\ snd'.s[k].pc = "idle")
              => SeqToSet(snd.s[k].attempted) = snd.s[k].all]_vars

\* a broadcast whose first send failed has gone on to its last recipient
C25_Witness ==
    \E k \in Senders :
        /\ snd.s[k].kind = "broadcast"
        /\ snd.s[k].pc = "loop"
        /\ snd.s[k].todo = {}
        /\ Len(snd.s[k].attempted) >= 2
        /\ snd.s[k].attempted[1] \in snd.s[k].failed
        /\ SeqToSet(snd.s[k].attempted) = snd.s[k].all

\* C26: writes to one peer's signaling socket are mutually exclusive: at
\* most one goroutine is inside WriteJSON on a given connection, and every
\* goroutine inside WriteJSON holds the mutex of the Peer it writes to.
C26_SocketWritesExclusive ==
    /\ \A c \in SndPeerIds : Cardinality(Writing(c)) <= 1
    /\ \A k \in Senders : snd.s[k].pc = "write" => snd.mu[snd.s[k].cur] = k

\* ------------------------------------------------------------- claims: loop end
\* C31: when the receive loop of a signaling connection has returned, for
\* whatever reason, no Peer constructed for that connection is registered
\* in its room.
C31_NoPeerAfterLoopReturn ==
    \A c \in ConcConnIds :
        th[ConnT(c)].pc = "done" =>
            \A p \in 1..Len(peers) :
                peers[p].Conn = c => ~Registered(p, peers[p].Room)

\* C32: once the disconnect path has run to its end for Peer p, a screenshot
\* message read on p's signaling connection is forwarded to nobody.
C32_NoForwardAfterDisconnect ==
    [][\A p \in 1..Len(peers) :
          (ShotStep /\ lastShot'.from = p /\ FullyDisconnected(p)) => sent' = sent]_vars

\* ------------------------------------------------------------- locks
\* The server's locks on their own: the registry mutex, the room's RWMutex
\* and the Peer mutexes, and the goroutines of the handlers reduced to the
\* lock operations they perform, in program order.  A goroutine is the
\* sequence of operations it still has to run.  Ids are distinct, so the
\* room's map is the set of the Peer objects registered.
MaxLockPeers == 2
MaxLockShots == 1
MaxLockTracks == 1
MaxLockLost == 1
MaxLockErrs == 1

LkPeers == 1..MaxLockPeers
LkThreads == {"conn", "track", "lost"} \X LkPeers
NoThread == <<>>

\* one operation: p is the peer the handler runs for, q the peer operated
\* on and todo what a loop has left
Op(op, p, q, todo) == [op |-> op, p |-> p, q |-> q, todo |-> todo]

\* a loop over the peers of todo, none if todo is empty
Loop(op, p, todo) == IF todo = {} THEN <<>> ELSE <<Op(op, p, NoPeer, todo)>>

\* Peer.SendMessage(q): q.mu.Lock, then Conn.WriteJSON and the deferred Unlock
SendMessageOps(q) == <<Op("mu.Lock", NoPeer, q, {}), Op("WriteJSON", NoPeer, q, {})>>

\* Room.BroadcastExcept(x): RLock, SendMessage to each entry but x, RUnlock
BroadcastExceptOps(x) ==
    <<Op("room.RLock", x, NoPeer, {}), Op("range", x, NoPeer, {}),
      Op("room.RUnlock", x, NoPeer, {})>>

\* Room.GetOtherPeers(p): RLock, the copy and the deferred RUnlock; the
\* caller's loop over the copy follows
GetOtherPeersOps(p, loop) ==
    <<Op("room.RLock", p, NoPeer, {}), Op(loop, p, NoPeer, {})>>

\* Room.RemovePeer that returns with the room's lock still held
RemovePeerOpsLocked(p) == <<Op("room.Lock", p, NoPeer, {})>>

\* Room.RemovePeer(p): Lock, delete, deferred Unlock
RemovePeerOps(p) == <<Op("room.Lock", p, NoPeer, {}), Op("RemovePeer", p, p, {})>>

\* handleJoin: GetOrCreateRoom, BroadcastExcept(peer_joined), AddPeer, the
\* existing-track loop, the initial offer
HandleJoinOps(p) ==
    <<Op("reg.Lock", p, NoPeer, {}), Op("reg.Unlock", p, NoPeer, {})>>
    \o BroadcastExceptOps(p)
    \o <<Op("room.Lock", p, NoPeer, {}), Op("AddPeer", p, p, {})>>
    \o GetOtherPeersOps(p, "snapshot.join")
    \o SendMessageOps(p)
    \o <<Op("return", p, NoPeer, {})>>

\* OnTrack: LocalTracks stored under peer.mu, then addTrackToPeer to every
\* other peer of the room
OnTrackOps(p) ==
    <<Op("mu.Lock", p, p, {}), Op("store", p, p, {})>>
    \o GetOtherPeersOps(p, "snapshot.fan")

\* handlePeerDisconnect
HandlePeerDisconnectOps(p) ==
    RemovePeerOps(p) \o BroadcastExceptOps(p) \o <<Op("Close", p, NoPeer, {})>>

\* handleScreenshot: Room.GetPeer(target), then targetPeer.SendMessage
HandleScreenshotOps(p, target) ==
    <<Op("room.RLock", p, NoPeer, {}), Op("GetPeer", p, target, {})>>

InitLock ==
    /\ ServerInit
    /\ rtp = Absent /\ agent = Absent /\ cl = Absent /\ trk = Absent /\ pipe = Absent
    /\ reg = Absent /\ snd = Absent
    /\ lk = [reg |-> NoThread, w |-> NoThread, r |-> {}, pending |-> {},
             mu |-> [p \in LkPeers |-> NoThread],
             Peers |-> {}, LocalTracks |-> {}, closed |-> {},
             conn |-> [p \in LkPeers |-> "new"],
             tracks |-> 0, lost |-> 0, errs |-> 0, shots |-> 0,
             prog |-> [t \in LkThreads |-> <<>>]]

NextOp(t) == lk.prog[t][1]
Runs(t, op) == lk.prog[t] # <<>> /\ NextOp(t).op = op

\* the goroutines t waits for, if the lock its next operation takes is not free
Blockers(t) ==
    IF lk.prog[t] = <<>> THEN {}
    ELSE CASE NextOp(t).op = "reg.Lock" -> {lk.reg} \ {NoThread}
           [] NextOp(t).op = "room.RLock" -> ({lk.w} \ {NoThread}) \cup lk.pending
           [] NextOp(t).op = "room.Lock.wait" -> ({lk.w} \ {NoThread}) \cup lk.r
           [] NextOp(t).op \in {"mu.Lock", "existing.mu.Lock"} ->
                  {lk.mu[NextOp(t).q]} \ {NoThread}
           [] OTHER -> {}

Blocked(t) == Blockers(t) # {}

\* the goroutine after its next operation, which leaves ops to run first
Then(t, ops) == [lk EXCEPT !.prog[t] = ops \o Tail(lk.prog[t])]

\* handleWebSocket case "join": peers join in the order of their numbers
LockJoin(p) ==
    /\ lk.conn[p] = "new"
    /\ p > 1 => lk.conn[p - 1] # "new"
    /\ lk' = [lk EXCEPT !.conn[p] = "joining", !.prog[<<"conn", p>>] = HandleJoinOps(p)]
    /\ UNCHANGED exceptLk

\* the remote track of an established peer arrives
LockOnTrack(p) ==
    /\ lk.conn[p] \in {"read", "done"}
    /\ p \notin lk.closed
    /\ lk.prog[<<"track", p>>] = <<>>
    /\ lk.tracks < MaxLockTracks
    /\ lk' = [lk EXCEPT !.tracks = @ + 1, !.prog[<<"track", p>>] = OnTrackOps(p)]
    /\ UNCHANGED exceptLk

\* OnConnectionStateChange(failed) of an established peer
LockStateLost(p) ==
    /\ lk.conn[p] \in {"read", "done"}
    /\ p \notin lk.closed
    /\ lk.prog[<<"lost", p>>] = <<>>
    /\ lk.lost < MaxLockLost
    /\ lk' = [lk EXCEPT !.lost = @ + 1,
                        !.prog[<<"lost", p>>] = HandlePeerDisconnectOps(p)]
    /\ UNCHANGED exceptLk

\* conn.ReadJSON fails on an established peer's connection
LockReadError(p) ==
    /\ lk.conn[p] = "read"
    /\ lk.prog[<<"conn", p>>] = <<>>
    /\ lk.errs < MaxLockErrs
    /\ lk' = [lk EXCEPT !.errs = @ + 1, !.conn[p] = "done",
                        !.prog[<<"conn", p>>] = HandlePeerDisconnectOps(p)]
    /\ UNCHANGED exceptLk

\* handleWebSocket case "screenshot"
LockScreenshot(p, target) ==
    /\ lk.conn[p] = "read"
    /\ lk.prog[<<"conn", p>>] = <<>>
    /\ lk.shots < MaxLockShots
    /\ lk' = [lk EXCEPT !.shots = @ + 1,
                        !.prog[<<"conn", p>>] = HandleScreenshotOps(p, target)]
    /\ UNCHANGED exceptLk

\* rm.mu.Lock()
RegLock(t) ==
    /\ Runs(t, "reg.Lock") /\ ~Blocked(t)
    /\ lk' = [Then(t, <<>>) EXCEPT !.reg = t]
    /\ UNCHANGED exceptLk

\* GetOrCreateRoom's lookup or insert and the deferred rm.mu.Unlock()
RegUnlock(t) ==
    /\ Runs(t, "reg.Unlock")
    /\ lk' = [Then(t, <<>>) EXCEPT !.reg = NoThread]
    /\ UNCHANGED exceptLk

\* r.mu.RLock(): a reader waits for the writer and for every waiting writer
RoomRLock(t) ==
    /\ Runs(t, "room.RLock") /\ ~Blocked(t)
    /\ lk' = [Then(t, <<>>) EXCEPT !.r = @ \cup {t}]
    /\ UNCHANGED exceptLk

\* BroadcastExcept's range over r.Peers, under the read lock
BroadcastRange(t) ==
    /\ Runs(t, "range")
    /\ lk' = Then(t, Loop("send.each", NextOp(t).p, lk.Peers \ {NextOp(t).p}))
    /\ UNCHANGED exceptLk

\* BroadcastExcept's deferred r.mu.RUnlock()
RoomRUnlock(t) ==
    /\ Runs(t, "room.RUnlock")
    /\ lk' = [Then(t, <<>>) EXCEPT !.r = @ \ {t}]
    /\ UNCHANGED exceptLk

\* GetOtherPeers' copy of the other peers and its deferred RUnlock
GetOtherPeersCopy(t) ==
    /\ Runs(t, "snapshot.join") \/ Runs(t, "snapshot.fan")
    /\ lk' = [Then(t, Loop(IF NextOp(t).op = "snapshot.join" THEN "join.each"
                           ELSE "fan.each",
                           NextOp(t).p, lk.Peers \ {NextOp(t).p}))
                 EXCEPT !.r = @ \ {t}]
    /\ UNCHANGED exceptLk

\* r.mu.Lock(): the writer announces itself, then waits for the readers
RoomLock(t) ==
    /\ Runs(t, "room.Lock")
    /\ lk' = [Then(t, <<Op("room.Lock.wait", NextOp(t).p, NoPeer, {})>>)
                 EXCEPT !.pending = @ \cup {t}]
    /\ UNCHANGED exceptLk

RoomLockAcquire(t) ==
    /\ Runs(t, "room.Lock.wait") /\ ~Blocked(t)
    /\ lk' = [Then(t, <<>>) EXCEPT !.pending = @ \ {t}, !.w = t]
    /\ UNCHANGED exceptLk

\* Room.AddPeer's insert, Room.RemovePeer's delete, and the deferred Unlock
RoomUpdate(t) ==
    /\ Runs(t, "AddPeer") \/ Runs(t, "RemovePeer")
    /\ lk' = [Then(t, <<>>) EXCEPT
                 !.w = NoThread,
                 !.Peers = IF NextOp(t).op = "AddPeer" THEN @ \cup {NextOp(t).q}
                           ELSE @ \ {NextOp(t).q}]
    /\ UNCHANGED exceptLk

\* one round of a loop over peers: BroadcastExcept's SendMessage, the
\* existing-track loop's existingPeer.mu.Lock ... Unlock around its tracks,
\* OnTrack's addTrackToPeer(otherPeer), whose triggerNegotiation sends
LoopBody(op, p, e) ==
    IF op = "join.each"
    THEN <<Op("existing.mu.Lock", p, e, {}), Op("mu.Unlock", p, e, {})>>
    ELSE SendMessageOps(e)

LoopNext(t, e) ==
    /\ Runs(t, "send.each") \/ Runs(t, "join.each") \/ Runs(t, "fan.each")
    /\ e \in NextOp(t).todo
    /\ lk' = Then(t, LoopBody(NextOp(t).op, NextOp(t).p, e)
                       \o Loop(NextOp(t).op, NextOp(t).p, NextOp(t).todo \ {e}))
    /\ UNCHANGED exceptLk

\* p.mu.Lock()
MuLock(t) ==
    /\ Runs(t, "mu.Lock") /\ ~Blocked(t)
    /\ lk' = [Then(t, <<>>) EXCEPT !.mu[NextOp(t).q] = t]
    /\ UNCHANGED exceptLk

\* the existing-track loop: existingPeer.mu.Lock(), then for each track of
\* the existing peer addTrackToPeer(peer, track), whose triggerNegotiation
\* sends to the joining peer
ExistingMuLock(t) ==
    /\ Runs(t, "existing.mu.Lock") /\ ~Blocked(t)
    /\ lk' = [Then(t, IF NextOp(t).q \in lk.LocalTracks
                      THEN SendMessageOps(NextOp(t).p) ELSE <<>>)
                 EXCEPT !.mu[NextOp(t).q] = t]
    /\ UNCHANGED exceptLk

\* what runs under a Peer's mutex up to its Unlock: Conn.WriteJSON returns,
\* OnTrack stores the forwarding track, the existing-track loop is through
\* with one peer
MuUnlock(t) ==
    /\ Runs(t, "WriteJSON") \/ Runs(t, "store") \/ Runs(t, "mu.Unlock")
    /\ lk' = [Then(t, <<>>) EXCEPT
                 !.mu[NextOp(t).q] = NoThread,
                 !.LocalTracks = IF NextOp(t).op = "store" THEN @ \cup {NextOp(t).q} ELSE @]
    /\ UNCHANGED exceptLk

\* Room.GetPeer under the read lock, its deferred RUnlock, and the
\* SendMessage to the peer found
GetPeerForward(t) ==
    /\ Runs(t, "GetPeer")
    /\ lk' = [Then(t, IF NextOp(t).q \in lk.Peers THEN SendMessageOps(NextOp(t).q)
                      ELSE <<>>)
                 EXCEPT !.r = @ \ {t}]
    /\ UNCHANGED exceptLk

\* handleJoin returns the peer; handlePeerDisconnect closes the PeerConnection
HandlerReturn(t) ==
    /\ Runs(t, "return") \/ Runs(t, "Close")
    /\ lk' = [Then(t, <<>>) EXCEPT
                 !.conn[NextOp(t).p] = IF NextOp(t).op = "return" THEN "read" ELSE @,
                 !.closed = IF NextOp(t).op = "Close" THEN @ \cup {NextOp(t).p} ELSE @]
    /\ UNCHANGED exceptLk

NextLock ==
    \/ \E p \in LkPeers : LockJoin(p)
    \/ \E p \in LkPeers : LockOnTrack(p)
    \/ \E p \in LkPeers : LockStateLost(p)
    \/ \E p \in LkPeers : LockReadError(p)
    \/ \E p \in LkPeers, target \in LkPeers : LockScreenshot(p, target)
    \/ \E t \in LkThreads : RegLock(t)
    \/ \E t \in LkThreads : RegUnlock(t)
    \/ \E t \in LkThreads : RoomRLock(t)
    \/ \E t \in LkThreads : BroadcastRange(t)
    \/ \E t \in LkThreads : RoomRUnlock(t)
    \/ \E t \in LkThreads : GetOtherPeersCopy(t)
    \/ \E t \in LkThreads : RoomLock(t)
    \/ \E t \in LkThreads : RoomLockAcquire(t)
    \/ \E t \in LkThreads : RoomUpdate(t)
    \/ \E t \in LkThreads, e \in LkPeers : LoopNext(t, e)
    \/ \E t \in LkThreads : MuLock(t)
    \/ \E t \in LkThreads : ExistingMuLock(t)
    \/ \E t \in LkThreads : MuUnlock(t)
    \/ \E t \in LkThreads : GetPeerForward(t)
    \/ \E t \in LkThreads : HandlerReturn(t)

SpecLock == InitLock /\ [][NextLock]_vars

\* C33: the server never deadlocks on its own locks: there is no non-empty
\* set of goroutines each of which waits for a lock (registry mutex, room
\* read or write lock, Peer mutex) that only goroutines of the set can
\* release.
C33_NoLockCycle ==
    \A S \in SUBSET LkThreads :
        S # {} => \E t \in S : ~Blocked(t) \/ ~(Blockers(t) \subseteq S)

\* a chain of waits that is no cycle: the existing-track loop of a join holds
\* an existing peer's mutex and waits for the joining peer's, whose holder
\* can run, while a third goroutine waits for the existing peer's mutex
C33_Witness ==
    \E t, u, v \in LkThreads : \E e \in LkPeers :
        /\ lk.mu[e] = t
        /\ Runs(t, "mu.Lock") /\ u \in Blockers(t)
        /\ ~Blocked(u)
        /\ Runs(v, "mu.Lock") /\ t \in Blockers(v)

\* ------------------------------------------------------------- agent: transcripts
\* The agent's transcript path on its own: the speech-to-text callbacks
\* handleTranscript and handleUtteranceEnd, interrupt, and the goroutines
\* handleUtteranceEnd starts for processWithLLM, with speakResponse reduced to
\* its sections under speakingMu and its wait for the cancel channel.  The
\* fields of AIAgent are kept in agent:
\*   pendingTranscript   the final transcripts accumulated, by number
\*   processingLLM, isSpeaking, cancelSpeaking, cancelLLM   as in the code
\*   closes              how often each cancel channel was closed
\*   canceled            the contexts whose cancel function was called
\*   nilCalled           interrupt called a nil cancelLLM (a panic)
\*   handed              the transcripts passed to processWithLLM, in order
\*   ended               the transcripts an utterance end has followed
\*   dropped, interrupts the utterance ends that returned early with text
\*                       pending, and the runs of interrupt
\*   cb, g               the callback goroutines and the processWithLLM ones
MaxCallbacks == 2
MaxEvents == 5
MaxFinals == 2

Callbacks == 1..MaxCallbacks
Slots == 1..MaxEvents
NoFunc == 0

CbIdle == [pc |-> "idle", transcript |-> "", id |-> 0, seen |-> NoFunc]
GoNone == [pc |-> "none", cancelCh |-> NoChan]

InitLLM ==
    /\ ServerInit
    /\ rtp = Absent /\ cl = Absent /\ trk = Absent /\ pipe = Absent
    /\ reg = Absent /\ snd = Absent /\ lk = Absent
    /\ agent = [pendingTranscript |-> <<>>, processingLLM |-> FALSE,
                isSpeaking |-> FALSE, cancelSpeaking |-> NoChan, cancelLLM |-> NoFunc,
                chans |-> 0, closes |-> [c \in Slots |-> 0], canceled |-> {},
                nilCalled |-> FALSE, handed |-> <<>>, ended |-> {},
                dropped |-> 0, interrupts |-> 0, events |-> 0, finals |-> 0,
                cb |-> [k \in Callbacks |-> CbIdle],
                g |-> [i \in Slots |-> GoNone]]

\* handleTranscript up to its first Unlock: isSpeaking read under speakingMu
\* (main.go:203-212).  A final, non-empty transcript gets the next number.
TranscriptRead(k, transcript, isFinal) ==
    LET final == isFinal /\ transcript # "" IN
    /\ agent.cb[k].pc = "idle"
    /\ agent.events < MaxEvents
    /\ final => agent.finals < MaxFinals
    /\ agent' = [agent EXCEPT
                    !.events = @ + 1,
                    !.finals = IF final THEN @ + 1 ELSE @,
                    !.cb[k] = [pc |-> IF agent.isSpeaking /\ transcript # ""
                                      THEN "interrupt" ELSE "append",
                               transcript |-> transcript,
                               id |-> IF final THEN agent.finals + 1 ELSE 0,
                               seen |-> NoFunc]]
    /\ UNCHANGED <<exceptAgent, rtp>>

\* interrupt, the section under speakingMu (main.go:258-263)
InterruptClose(k) ==
    /\ agent.cb[k].pc = "interrupt"
    /\ agent' = [agent EXCEPT
                    !.interrupts = @ + 1,
                    !.closes = IF agent.cancelSpeaking # NoChan
                               THEN [@ EXCEPT ![agent.cancelSpeaking] = @ + 1] ELSE @,
                    !.cancelSpeaking = NoChan,
                    !.cb[k].pc = "check"]
    /\ UNCHANGED <<exceptAgent, rtp>>

\* interrupt: if a.cancelLLM != nil, read with no lock held (main.go:266)
InterruptCheck(k) ==
    /\ agent.cb[k].pc = "check"
    /\ agent' = [agent EXCEPT
                    !.cb[k].pc = IF agent.cancelLLM # NoFunc THEN "call" ELSE "append",
                    !.cb[k].seen = agent.cancelLLM]
    /\ UNCHANGED <<exceptAgent, rtp>>

\* interrupt: a.cancelLLM() (main.go:267).  The field is read without
\* synchronisation while processWithLLM writes it: the call uses the value
\* the test saw or the value the field holds now.
InterruptCall(k, reload) ==
    LET f == IF reload THEN agent.cancelLLM ELSE agent.cb[k].seen IN
    /\ agent.cb[k].pc = "call"
    /\ agent' = [agent EXCEPT
                    !.nilCalled = @ \/ f = NoFunc,
                    !.canceled = IF f # NoFunc THEN @ \cup {f} ELSE @,
                    !.cb[k].pc = "append"]
    /\ UNCHANGED <<exceptAgent, rtp>>

\* handleTranscript, the section under transcriptMu (main.go:214-231)
TranscriptAppend(k) ==
    /\ agent.cb[k].pc = "append"
    /\ agent' = [agent EXCEPT
                    !.pendingTranscript = IF agent.cb[k].id # 0
                                          THEN Append(@, agent.cb[k].id) ELSE @,
                    !.cb[k] = CbIdle]
    /\ UNCHANGED <<exceptAgent, rtp>>

\* handleUtteranceEnd goes on only with text pending and no request running
StartsAlways(a) == Len(a.pendingTranscript) > 0
Starts(a) == Len(a.pendingTranscript) > 0 /\ ~a.processingLLM

\* handleUtteranceEnd, all of it under transcriptMu (main.go:237-253)
UtteranceEnd(k) ==
    /\ agent.cb[k].pc = "idle"
    /\ agent.events < MaxEvents
    /\ agent' =
          IF Starts(agent)
          THEN [agent EXCEPT
                   !.events = @ + 1,
                   !.ended = @ \cup {agent.pendingTranscript[j] :
                                         j \in 1..Len(agent.pendingTranscript)},
                   !.handed = Append(@, agent.pendingTranscript),
                   !.pendingTranscript = <<>>,
                   !.processingLLM = TRUE,
                   !.g[Len(agent.handed) + 1].pc = "start"]
          ELSE [agent EXCEPT
                   !.events = @ + 1,
                   !.ended = @ \cup {agent.pendingTranscript[j] :
                                         j \in 1..Len(agent.pendingTranscript)},
                   !.dropped = IF Len(agent.pendingTranscript) > 0 THEN @ + 1 ELSE @]
    /\ UNCHANGED <<exceptAgent, rtp>>

\* processWithLLM: ctx, cancel := context.WithCancel; a.cancelLLM = cancel
ProcessInstall(i) ==
    /\ agent.g[i].pc = "start"
    /\ agent' = [agent EXCEPT !.cancelLLM = i, !.g[i].pc = "chat"]
    /\ UNCHANGED <<exceptAgent, rtp>>

\* the chat request returns: with a response to speak, or with an error, an
\* empty response or a cancelled context, and then processWithLLM returns
ProcessChat(i, speak) ==
    /\ agent.g[i].pc = "chat"
    /\ speak => i \notin agent.canceled
    /\ agent' = [agent EXCEPT !.g[i].pc = IF speak THEN "speak" ELSE "defer"]
    /\ UNCHANGED <<exceptAgent, rtp>>

\* speakResponse, the section under speakingMu (main.go:360-365)
ProcessSpeak(i) ==
    /\ agent.g[i].pc = "speak"
    /\ agent' = [agent EXCEPT
                    !.isSpeaking = TRUE,
                    !.chans = @ + 1,
                    !.cancelSpeaking = agent.chans + 1,
                    !.g[i] = [pc |-> "pace", cancelCh |-> agent.chans + 1]]
    /\ UNCHANGED <<exceptAgent, rtp>>

\* speakResponse's body ends: every frame is sent, a step fails, or the
\* select takes case <-cancelCh
ProcessSpeakEnd(i, cancelled) ==
    /\ agent.g[i].pc = "pace"
    /\ cancelled => agent.closes[agent.g[i].cancelCh] > 0
    /\ agent' = [agent EXCEPT !.g[i].pc = "spoken"]
    /\ UNCHANGED <<exceptAgent, rtp>>

\* speakResponse's deferred function (main.go:367-372)
AfterSpeakKeepsChan(a) == [a EXCEPT !.isSpeaking = FALSE]
AfterSpeak(a) == [a EXCEPT !.isSpeaking = FALSE, !.cancelSpeaking = NoChan]

ProcessSpeakDefer(i) ==
    /\ agent.g[i].pc = "spoken"
    /\ agent' = [AfterSpeak(agent) EXCEPT !.g[i].pc = "defer"]
    /\ UNCHANGED <<exceptAgent, rtp>>

\* processWithLLM's deferred function: cancel(); a.cancelLLM = nil
ProcessDefer(i) ==
    /\ agent.g[i].pc = "defer"
    /\ agent' = [agent EXCEPT !.canceled = @ \cup {i}, !.cancelLLM = NoFunc,
                              !.g[i].pc = "unmark"]
    /\ UNCHANGED <<exceptAgent, rtp>>

\* processWithLLM's deferred function: processingLLM = false under transcriptMu
ProcessReturn(i) ==
    /\ agent.g[i].pc = "unmark"
    /\ agent' = [agent EXCEPT !.processingLLM = FALSE, !.g[i].pc = "done"]
    /\ UNCHANGED <<exceptAgent, rtp>>

\* the steps the agent takes by itself, once a callback has been invoked
LLMStep ==
    \/ \E k \in Callbacks : InterruptClose(k)
    \/ \E k \in Callbacks : InterruptCheck(k)
    \/ \E k \in Callbacks, reload \in BOOLEAN : InterruptCall(k, reload)
    \/ \E k \in Callbacks : TranscriptAppend(k)
    \/ \E i \in Slots : ProcessInstall(i)
    \/ \E i \in Slots, speak \in BOOLEAN : ProcessChat(i, speak)
    \/ \E i \in Slots : ProcessSpeak(i)
    \/ \E i \in Slots, cancelled \in BOOLEAN : ProcessSpeakEnd(i, cancelled)
    \/ \E i \in Slots : ProcessSpeakDefer(i)
    \/ \E i \in Slots : ProcessDefer(i)
    \/ \E i \in Slots : ProcessReturn(i)

NextLLM ==
    \/ \E k \in Callbacks, transcript \in Transcripts, isFinal \in BOOLEAN :
           TranscriptRead(k, transcript, isFinal)
    \/ \E k \in Callbacks : UtteranceEnd(k)
    \/ LLMStep

SpecLLM == InitLLM /\ [][NextLLM]_vars

\* the callbacks are invoked by the speech-to-text service; every goroutine
\* of the agent that can take a step eventually takes one
SpecLLMLive == InitLLM /\ [][NextLLM]_vars /\ WF_vars(LLMStep)

\* the processWithLLM goroutines that have not returned
Active == {i \in Slots : agent.g[i].pc \notin {"none", "done"}}

\* C34: at most one utterance is being spoken at a time: at most one
\* processWithLLM goroutine is running, and so at most one speakResponse.
C34_OneProcessWithLLM ==
    /\ Cardinality(Active) <= 1
    /\ Cardinality({i \in Slots : agent.g[i].pc \in {"pace", "spoken"}}) <= 1

\* a second request is running, after an utterance end that came during the
\* first one returned early
C34_Witness ==
    /\ Len(agent.handed) = 2
    /\ agent.dropped >= 1
    /\ Cardinality(Active) = 1
    /\ agent.g[1].pc = "done"


\* the cancel channels of the calls of speakResponse that have not returned
Current == {agent.g[i].cancelCh : i \in {j \in Slots : agent.g[j].pc \in {"pace", "spoken"}}}

\* C35: a cancel channel is closed at most once, and the channel interrupt
\* closes is the one of the utterance being spoken, never one of an utterance
\* that has finished.
C35_CancelClosedOnce ==
    [][\A c \in Slots :
          agent'.closes[c] > agent.closes[c] =>
              /\ agent.closes[c] = 0
              /\ c \in Current
              /\ c = agent.cancelSpeaking]_vars

\* two runs of interrupt, from the two callbacks, for one utterance: its
\* channel is closed once
C35_Witness ==
    \E c \in Slots :
        /\ agent.closes[c] = 1
        /\ agent.interrupts >= 2
        /\ agent.chans = 1
        /\ \A k \in Callbacks : agent.cb[k].pc \in {"check", "call"}

\* C36: interrupt never calls a nil cancelLLM.
C36_CancelLLMNotNil == ~agent.nilCalled

\* the final transcripts that were appended, and those handed to processWithLLM
Appended(id) ==
    \/ \E j \in 1..Len(agent.pendingTranscript) : agent.pendingTranscript[j] = id
    \/ \E h \in 1..Len(agent.handed) : \E j \in 1..Len(agent.handed[h]) : agent.handed[h][j] = id
Handed(id) ==
    \E h \in 1..Len(agent.handed) : \E j \in 1..Len(agent.handed[h]) : agent.handed[h][j] = id

\* C37: a final transcript that was appended to pendingTranscript, and that
\* an utterance end has followed, is eventually handed to processWithLLM.
C37_PendingEventuallyHanded ==
    \A id \in 1..MaxFinals :
        (agent.pendingTranscript # <<>> /\ id \in agent.ended /\ Appended(id)) ~> Handed(id)


\* C38: done is closed at most once over any sequence of Connect and
\* Disconnect calls on one Client, and while the client is connected done is
\* open, so that the handleMessages goroutine its Connect started keeps
\* reading until the Disconnect.
C38_DoneClosedOnce ==
    /\ ~cl.panicked
    /\ cl.connected => cl.done = "open"


\* C39: after any sequence of ProcessChunk, Flush and Reset calls the buffer
\* holds fewer than 3,840 bytes and a multiple of 4 bytes, and it is empty
\* right after a Flush and right after a Reset; ProcessChunk with an empty
\* input leaves the buffer as it was and emits nothing.
C39_BufferInvariant ==
    [][/\ pipe'.buffer < 3840
       /\ pipe'.buffer % 4 = 0
       /\ Called("Flush") => pipe'.buffer = 0
       /\ Called("Reset") => pipe'.buffer = 0 /\ pipe'.out = 0
       /\ (Called("ProcessChunk") /\ pipe'.in = 0) =>
              /\ pipe'.buffer = pipe.buffer
              /\ pipe'.out = 0
              /\ pipe'.emitted = pipe.emitted]_vars

\* C39 witness: a partial frame is buffered after a Flush, and an empty
\* chunk has left it in the buffer
C39_Witness ==
    /\ pipe.op = "ProcessChunk"
    /\ pipe.in = 0
    /\ pipe.calls = 3
    /\ pipe.buffer > 0
    /\ pipe.emitted = 1

====
